---- MODULE Spec2Model ----
(***************************************************************************)
(* Model of the Walmart order checker's ingestion pipeline                 *)
(* (pkg/gmail/cache.go: ProcessEmails, its worker pool, the ledger merge   *)
(* rules) and of the web scan state machine (internal/api/handlers.go:     *)
(* HandleScan, watchProgress, runScan).                                    *)
(*                                                                         *)
(* Text is modelled as a sequence of tokens: a subject or an order number  *)
(* is the concatenation of its tokens, and the hyphen and the hash sign    *)
(* are tokens of their own, so that Split, ReplaceAll, Contains, HasPrefix *)
(* and HasSuffix are computed on the text instead of being assumed.        *)
(***************************************************************************)
EXTENDS Integers, Sequences, FiniteSets, TLC

\* ------------------------------------------------------------------ bounds
\* Number of messages handed to ProcessEmails.
MaxMsgs == 2
\* Size of the worker pool in the model (the code starts 8; more workers than
\* messages never run at once).
NumWorkers == 2
\* The upstream disturbs the fetch of the first MaxFaulty messages only.
MaxFaulty == 1

\* ------------------------------------------------------- program constants
\* getMessage: const maxAttempts = 5
maxAttempts == 5
\* getMessage: backoff := time.Second (in seconds)
InitialBackoff == 1

Workers == 1..NumWorkers
\* jobs := make(chan string, workers*2)
JobsCap == NumWorkers * 2

\* ------------------------------------------------------------ text helpers
\* strings.Contains(s, tok) for a keyword that is one token of s.
Contains(s, tok) == \E i \in 1..Len(s) : s[i] = tok

\* strings.HasPrefix(s, tok)
HasPrefix(s, tok) == Len(s) >= 1 /\ s[1] = tok

\* strings.HasSuffix(s, tok)
HasSuffix(s, tok) == Len(s) >= 1 /\ s[Len(s)] = tok

\* strings.ReplaceAll(s, old, ""): every occurrence of the token is removed.
ReplaceAll(s, old) == SelectSeq(s, LAMBDA c : c # old)

\* strings.TrimPrefix(s, tok)
TrimPrefix(s, tok) == IF HasPrefix(s, tok) THEN Tail(s) ELSE s

\* Positions of the separator in s.
SepPositions(s, sep) == {i \in 1..Len(s) : s[i] = sep}

\* len(strings.Split(s, sep))
SplitLen(s, sep) == Cardinality(SepPositions(s, sep)) + 1

Min(S) == CHOOSE x \in S : \A y \in S : x <= y

\* strings.Split(s, sep)[1]: the text between the first separator and the
\* second one (or the end of s). Only used when SplitLen(s, sep) > 1.
SplitPart1(s, sep) ==
    LET first == Min(SepPositions(s, sep))
        later == {i \in SepPositions(s, sep) : i > first}
        stop  == IF later = {} THEN Len(s) + 1 ELSE Min(later)
    IN  SubSeq(s, first + 1, stop - 1)

\* ------------------------------------------------------------- the inputs
\* Upstream order numbers as Walmart prints them: 7 digits, a hyphen, 8 digits.
OrderA == <<"2000131", "-", "89912005">>
OrderB == <<"2000129", "-", "05242992">>

\* Tokens whose first character is '2' (processDeliveredEmail: text[1] == '2').
StartsWith2 == {"2000131", "2000129"}

NoItems == << >>
ItemsWidget == <<[Name |-> "Widget", Quantity |-> 2]>>
ItemsGadget == <<[Name |-> "Gadget", Quantity |-> 1]>>

\* A decoded HTML body, by the elements the extractor queries:
\*   found    - findHTMLPart found a text/html part and it decoded
\*   anchor   - text of the first a[aria-label*=' '] ("" when there is none)
\*   items    - the items parsed from img[alt*='quantity']
\*   total    - text next to the fee disclaimer
\*   date     - text after "Order date:"
\*   tracks   - texts of span:contains('tracking number') a
\*   arrivals - texts of strong:contains('Arrives')
\*   carrier  - the word before "tracking number"
\*   links    - texts of all a elements
Doc(found, anchor, items, total, date, tracks, arrivals, carrier, links) ==
    [found |-> found, anchor |-> anchor, items |-> items, total |-> total,
     date |-> date, tracks |-> tracks, arrivals |-> arrivals,
     carrier |-> carrier, links |-> links]

OrderDoc(anchor, items, total, date) ==
    Doc(TRUE, anchor, items, total, date, << >>, << >>, "", <<anchor>>)

ShipDoc(anchor, tracks, arrivals, carrier) ==
    Doc(TRUE, anchor, NoItems, "", "", tracks, arrivals, carrier, <<anchor>>)

NoHTML == Doc(FALSE, << >>, NoItems, "", "", << >>, << >>, "", << >>)

Msg(subject, doc) == [subject |-> subject, doc |-> doc]

PayFailSuffix == "was canceled [red circle]"

ConfirmA   == Msg(<<"thanks for your order">>,
                  OrderDoc(OrderA, ItemsWidget, "$20.00", "Mon, Jan 6, 2025"))
PreorderA  == Msg(<<"thanks for your ", "preorder">>,
                  OrderDoc(OrderA, ItemsGadget, "$35.00", "Tue, Jan 7, 2025"))
ConfirmNoID == Msg(<<"thanks for your order">>,
                  OrderDoc(<< >>, ItemsWidget, "$20.00", "Mon, Jan 6, 2025"))
CancelAHyphen == Msg(<<"Canceled:", " delivery from order ", "#">> \o OrderA, NoHTML)
CancelAPlain  == Msg(<<"Canceled:", " delivery from order ", "#", "2000131", "89912005">>,
                     NoHTML)
PayFailA   == Msg(<<"Your order ", PayFailSuffix>>, OrderDoc(OrderA, NoItems, "", ""))
ShipA1     == Msg(<<"Shipped:", " items from your order">>,
                  ShipDoc(OrderA, <<<<"TN1">>>>, <<"Arrives Mon">>, "FedEx"))
ShipA1Dup  == Msg(<<"Shipped:", " items from your order">>,
                  ShipDoc(OrderA, <<<<"TN1">>, <<"TN2">>>>, <<"Arrives Tue", "Arrives Wed">>, "UPS"))
\* A shipment of order A whose tracking number reads like order B's number.
ShipCollide == Msg(<<"Shipped:", " items from your order">>,
                  ShipDoc(OrderA, <<<<"2000129", "05242992">>>>, <<"Arrives Thu">>, "FedEx"))
DeliveredA == Msg(<<"Delivered:", " your order">>,
                  Doc(TRUE, << >>, NoItems, "", "", << >>, << >>, "",
                      <<<<"#">> \o OrderA>>))
DeliveredB == Msg(<<"Arrived:", " your order">>,
                  Doc(TRUE, << >>, NoItems, "", "", << >>, << >>, "",
                      <<<<"#">> \o OrderB>>))

\* The messages about an order's life, and those about its shipment.
OrderMsgs == {ConfirmA, PreorderA, ConfirmNoID, CancelAHyphen, CancelAPlain, PayFailA}
ShipMsgs  == {ShipA1, ShipA1Dup, ShipCollide, DeliveredA, DeliveredB}

Catalogue == OrderMsgs \cup ShipMsgs

\* What the upstream answers to the successive attempts of one Messages.Get:
\* "ok", or the text of an error.
TransientErrors == {"rateLimitExceeded", "backendError"}
PermanentErrors == {"notFound"}

Repeat(x, n) == [i \in 1..n |-> x]

\* k transient errors (of both kinds in turn), then a final answer, then
\* (never read) successes.
TransientRun(k) ==
    [i \in 1..k |-> IF i % 2 = 1 THEN "rateLimitExceeded" ELSE "backendError"]

UpstreamPlans ==
    {TransientRun(k) \o <<f>> \o Repeat("ok", maxAttempts - k)
        : k \in 0..maxAttempts, f \in {"ok"} \cup PermanentErrors}

\* What the upstream did on a plan, whatever the client makes of it: the first
\* answer among the first maxAttempts that is not a transient error, or
\* "exhausted" when all of them are transient errors.
UpstreamClass(resps) ==
    LET final == {i \in 1..maxAttempts : resps[i] \notin TransientErrors}
    IN  IF final = {} THEN "exhausted"
        ELSE IF resps[Min(final)] # "ok" THEN "permanent"
        ELSE IF Min(final) = 1 THEN "ok" ELSE "retried"

\* The answers the upstream may give for message m.
PlansFor(m) == IF m <= MaxFaulty THEN UpstreamPlans ELSE {Repeat("ok", maxAttempts + 1)}

\* ---------------------------------------------------------- the extractor
\* Number of characters of a token (len(text) in processDeliveredEmail).
CharLen(tok) ==
    CASE tok \in {"#", "-"} -> 1
      [] tok \in StartsWith2 -> 7
      [] OTHER -> 8

RECURSIVE TextLen(_)
TextLen(s) == IF s = << >> THEN 0 ELSE CharLen(Head(s)) + TextLen(Tail(s))

\* determineStatus
determineStatus(subject) ==
    IF Contains(subject, "preorder") THEN "pre-ordered" ELSE "confirmed"

\* &report.Order{ID: orderID, Status: "canceled"}: every other field is zero.
CanceledOrder(orderID) ==
    [ID |-> orderID, Items |-> NoItems, Total |-> "", OrderDate |-> "",
     Status |-> "canceled"]

\* extractOrderInfo: the order ID is the anchor text with the hyphens removed.
extractOrderInfo(doc, subject) ==
    [ID        |-> ReplaceAll(doc.anchor, "-"),
     Items     |-> doc.items,
     Total     |-> doc.total,
     OrderDate |-> doc.date,
     Status    |-> determineStatus(subject)]

RECURSIVE pairShipments(_, _, _, _, _, _)
pairShipments(orderID, carrier, tracks, arrivals, i, count) ==
    IF i > count THEN << >>
    ELSE (IF tracks[i] = << >> THEN << >>
          ELSE <<[ID |-> orderID, TrackingNumber |-> tracks[i],
                  Carrier |-> carrier, EstimatedArrival |-> arrivals[i]]>>)
         \o pairShipments(orderID, carrier, tracks, arrivals, i + 1, count)

\* extractShippingInfo: tracking numbers and arrival dates paired by position.
extractShippingInfo(doc) ==
    LET count == IF Len(doc.arrivals) < Len(doc.tracks)
                 THEN Len(doc.arrivals) ELSE Len(doc.tracks)
    IN  pairShipments(ReplaceAll(doc.anchor, "-"), doc.carrier,
                      doc.tracks, doc.arrivals, 1, count)

\* processShippedEmail
processShippedEmail(msg) ==
    IF ~msg.doc.found THEN << >> ELSE extractShippingInfo(msg.doc)

\* The test processDeliveredEmail makes on the text of a link.
LooksDelivered(text) ==
    /\ HasPrefix(text, "#")
    /\ Contains(text, "-")
    /\ TextLen(text) > 10
    /\ text[2] \in StartsWith2

\* processDeliveredEmail: the last link that looks like "#2000129-05242992",
\* without its "#" and its hyphens; "" when there is none.
processDeliveredEmail(msg) ==
    LET hits == {i \in 1..Len(msg.doc.links) : LooksDelivered(msg.doc.links[i])}
    IN  IF ~msg.doc.found \/ hits = {} THEN << >>
        ELSE LET last == CHOOSE i \in hits : \A j \in hits : j <= i
             IN  ReplaceAll(TrimPrefix(msg.doc.links[last], "#"), "-")

\* ------------------------------------------------------------- the ledger
\* orders[orderID] = order
Put(orders, order) ==
    [id \in DOMAIN orders \cup {order.ID} |->
        IF id = order.ID THEN order ELSE orders[id]]

\* processCanceledEmail: the order ID is what follows the first "#" of the
\* subject, as it stands.
processCanceledEmail(subject, orders) ==
    IF SplitLen(subject, "#") <= 1 THEN orders
    ELSE LET orderID == SplitPart1(subject, "#")
         IN  IF orderID \in DOMAIN orders
             THEN [orders EXCEPT ![orderID].Status = "canceled"]
             ELSE Put(orders, CanceledOrder(orderID))

\* processPaymentFailCancelEmail: the order ID is the anchor text of the body,
\* hyphens removed.
processPaymentFailCancelEmail(msg, orders) ==
    IF ~msg.doc.found \/ msg.doc.anchor = << >> THEN orders
    ELSE LET orderID == ReplaceAll(msg.doc.anchor, "-")
         IN  IF orderID \in DOMAIN orders
             THEN [orders EXCEPT ![orderID].Status = "canceled"]
             ELSE Put(orders, CanceledOrder(orderID))

\* mergeOrCreateOrder with the status always taken from the new order.
mergeOrCreateOrderNotSticky(orders, newOrder) ==
    IF newOrder.ID \in DOMAIN orders
    THEN LET existing == orders[newOrder.ID]
         IN  [orders EXCEPT ![newOrder.ID] =
                [existing EXCEPT
                    !.Items  = IF Len(existing.Items) = 0
                               THEN newOrder.Items ELSE existing.Items,
                    !.Status = newOrder.Status]]
    ELSE Put(orders, newOrder)

\* mergeOrCreateOrder with the items always taken from the new order.
mergeOrCreateOrderLastItems(orders, newOrder) ==
    IF newOrder.ID \in DOMAIN orders
    THEN LET existing == orders[newOrder.ID]
         IN  [orders EXCEPT ![newOrder.ID] =
                [existing EXCEPT
                    !.Items  = newOrder.Items,
                    !.Status = IF existing.Status # "canceled"
                               THEN newOrder.Status ELSE existing.Status]]
    ELSE Put(orders, newOrder)

\* mergeOrCreateOrder with the new order's items added to the known ones.
mergeOrCreateOrderAppendItems(orders, newOrder) ==
    IF newOrder.ID \in DOMAIN orders
    THEN LET existing == orders[newOrder.ID]
         IN  [orders EXCEPT ![newOrder.ID] =
                [existing EXCEPT
                    !.Items  = existing.Items \o newOrder.Items,
                    !.Status = IF existing.Status # "canceled"
                               THEN newOrder.Status ELSE existing.Status]]
    ELSE Put(orders, newOrder)

\* mergeOrCreateOrder with a known order's record replaced by the new one.
mergeOrCreateOrderReplaces(orders, newOrder) == Put(orders, newOrder)

\* mergeOrCreateOrder with the status of a known order never taken from the
\* new order.
mergeOrCreateOrderFirstStatus(orders, newOrder) ==
    IF newOrder.ID \in DOMAIN orders
    THEN LET existing == orders[newOrder.ID]
         IN  [orders EXCEPT ![newOrder.ID] =
                [existing EXCEPT
                    !.Items  = IF Len(existing.Items) = 0
                               THEN newOrder.Items ELSE existing.Items]]
    ELSE Put(orders, newOrder)

\* mergeOrCreateOrder
mergeOrCreateOrder(orders, newOrder) ==
    IF newOrder.ID \in DOMAIN orders
    THEN LET existing == orders[newOrder.ID]
         IN  [orders EXCEPT ![newOrder.ID] =
                [existing EXCEPT
                    !.Items  = IF Len(existing.Items) = 0
                               THEN newOrder.Items ELSE existing.Items,
                    !.Status = IF existing.Status # "canceled"
                               THEN newOrder.Status ELSE existing.Status]]
    ELSE Put(orders, newOrder)

\* mergeOrders with the status of a known order never taken from src.
mergeOrdersKeepsDestStatus(dest, src) ==
    [id \in DOMAIN dest \cup DOMAIN src |->
        IF id \in DOMAIN dest /\ id \in DOMAIN src
        THEN LET existing == dest[id]
                 order == src[id]
             IN  [existing EXCEPT
                    !.Items     = IF Len(existing.Items) = 0
                                  THEN order.Items ELSE existing.Items,
                    !.Total     = IF existing.Total = ""
                                  THEN order.Total ELSE existing.Total,
                    !.OrderDate = IF existing.OrderDate = ""
                                  THEN order.OrderDate ELSE existing.OrderDate]
        ELSE IF id \in DOMAIN dest THEN dest[id] ELSE src[id]]

\* mergeOrders (multi-account merge): src is merged into dest, entry by entry.
mergeOrders(dest, src) ==
    [id \in DOMAIN dest \cup DOMAIN src |->
        IF id \in DOMAIN dest /\ id \in DOMAIN src
        THEN LET existing == dest[id]
                 order == src[id]
             IN  [existing EXCEPT
                    !.Items     = IF Len(existing.Items) = 0
                                  THEN order.Items ELSE existing.Items,
                    !.Total     = IF existing.Total = ""
                                  THEN order.Total ELSE existing.Total,
                    !.OrderDate = IF existing.OrderDate = ""
                                  THEN order.OrderDate ELSE existing.OrderDate,
                    !.Status    = IF existing.Status # "canceled"
                                  THEN order.Status ELSE existing.Status]
        ELSE IF id \in DOMAIN dest THEN dest[id] ELSE src[id]]

\* The Shipped: case with every record appended, seen or not.
RECURSIVE addShippedNoDedup(_, _, _)
addShippedNoDedup(shipped, shippedIDs, newShipped) ==
    IF newShipped = << >> THEN <<shipped, shippedIDs>>
    ELSE addShippedNoDedup(Append(shipped, Head(newShipped)),
                           shippedIDs \cup {Head(newShipped).TrackingNumber},
                           Tail(newShipped))

\* The Shipped: case under the lock: a record is appended unless its tracking
\* number is already in shippedIDs. The state is <<shipped, shippedIDs>>.
RECURSIVE addShipped(_, _, _)
addShipped(shipped, shippedIDs, newShipped) ==
    IF newShipped = << >> THEN <<shipped, shippedIDs>>
    ELSE LET s == Head(newShipped)
         IN  IF s.TrackingNumber \in shippedIDs
             THEN addShipped(shipped, shippedIDs, Tail(newShipped))
             ELSE addShipped(Append(shipped, s),
                             shippedIDs \cup {s.TrackingNumber}, Tail(newShipped))

\* The synthetic record of the Arrived:/Delivered: case.
DeliveredMarker(orderID) ==
    [ID |-> orderID, TrackingNumber |-> <<"DELIVERED">>,
     Carrier |-> "Delivered", EstimatedArrival |-> ""]

\* The Arrived:/Delivered: case under the lock.
addDelivered(shipped, shippedIDs, orderID) ==
    IF orderID \in shippedIDs THEN <<shipped, shippedIDs>>
    ELSE <<Append(shipped, DeliveredMarker(orderID)), shippedIDs \cup {orderID}>>

\* --------------------------------------------------------- the classifier
\* The switch with the Shipped: case tested first.
ClassifyShippedFirst(subject) ==
    IF Contains(subject, "Shipped:") THEN "Shipped"
    ELSE IF Contains(subject, "Canceled:") THEN "Canceled"
    ELSE IF HasSuffix(subject, PayFailSuffix) THEN "PaymentFailureCanceled"
    ELSE IF HasPrefix(subject, "Arrived:") \/ HasPrefix(subject, "Delivered:")
         THEN "Arrived"
    ELSE "OrderConfirmation"

\* The subject switch of the worker, first match first.
Classify(subject) ==
    CASE Contains(subject, "Canceled:") -> "Canceled"
      [] ~Contains(subject, "Canceled:") /\ HasSuffix(subject, PayFailSuffix)
            -> "PaymentFailureCanceled"
      [] ~Contains(subject, "Canceled:") /\ ~HasSuffix(subject, PayFailSuffix)
            /\ Contains(subject, "Shipped:") -> "Shipped"
      [] ~Contains(subject, "Canceled:") /\ ~HasSuffix(subject, PayFailSuffix)
            /\ ~Contains(subject, "Shipped:")
            /\ (HasPrefix(subject, "Arrived:") \/ HasPrefix(subject, "Delivered:"))
            -> "Arrived"
      [] OTHER -> "OrderConfirmation"

\* ------------------------------------------------------------- getMessage
\* The test with "backendError" left out.
IsTransientRateLimitOnly(err) == err = "rateLimitExceeded"

\* strings.Contains(err.Error(), "rateLimitExceeded") ||
\* strings.Contains(err.Error(), "backendError")
IsTransient(err) == err \in {"rateLimitExceeded", "backendError"}

\* The retry loop with the backoff never doubled.
RECURSIVE getMessageLoopFixedBackoff(_, _, _, _)
getMessageLoopFixedBackoff(resps, attempt, backoff, slept) ==
    IF attempt >= maxAttempts
    THEN [ok |-> FALSE, err |-> "max retries exceeded", calls |-> attempt, slept |-> slept]
    ELSE LET r == resps[attempt + 1]
         IN  IF r = "ok"
             THEN [ok |-> TRUE, err |-> "", calls |-> attempt + 1, slept |-> slept]
             ELSE IF IsTransient(r)
                  THEN getMessageLoopFixedBackoff(resps, attempt + 1, backoff,
                                                  Append(slept, backoff))
                  ELSE [ok |-> FALSE, err |-> r, calls |-> attempt + 1, slept |-> slept]

\* The retry loop of getMessage over the upstream's answers: the result, the
\* number of Messages.Get calls made and the sleeps taken between them.
RECURSIVE getMessageLoop(_, _, _, _)
getMessageLoop(resps, attempt, backoff, slept) ==
    IF attempt >= maxAttempts
    THEN [ok |-> FALSE, err |-> "max retries exceeded", calls |-> attempt, slept |-> slept]
    ELSE LET r == resps[attempt + 1]
         IN  IF r = "ok"
             THEN [ok |-> TRUE, err |-> "", calls |-> attempt + 1, slept |-> slept]
             ELSE IF IsTransient(r)
                  THEN getMessageLoop(resps, attempt + 1, backoff * 2,
                                      Append(slept, backoff))
                  ELSE [ok |-> FALSE, err |-> r, calls |-> attempt + 1, slept |-> slept]

getMessage(resps) == getMessageLoop(resps, 0, InitialBackoff, << >>)

\* ------------------------------------------------- ProcessEmails: the state
VARIABLES
    allMessages,  \* the messages handed to ProcessEmails
    sent,         \* how many IDs the producer loop has put on the channel
    jobs,         \* the buffered channel: indices into allMessages
    closed,       \* close(jobs) has run
    mainpc,       \* ProcessEmails itself: "send", "wait", "returned"
    wpc,          \* each worker: "recv", "fetch", "lock", "crit", "exited"
    wjob,         \* each worker's current job (0: none)
    mu,           \* the ledger mutex: 0 when free, else the worker holding it
    orders,       \* the ledger: order ID -> Order
    shipped,      \* the shipped list
    shippedIDs,   \* the dedup set of the shipped list
    bar,          \* the progress count (bar.Add)
    upstream,     \* per message, what the upstream did: UpstreamClass, or "none"
    applied       \* the messages in the order of their critical sections

pvars == <<allMessages, sent, jobs, closed, mainpc, wpc, wjob, mu, orders,
           shipped, shippedIDs, bar, upstream, applied>>

MsgIds == 1..MaxMsgs

EmptyLedger == [id \in {} |-> CanceledOrder(id)]

PInit ==
    /\ allMessages \in [MsgIds -> OrderMsgs] \cup [MsgIds -> ShipMsgs]
    /\ sent = 0
    /\ jobs = << >>
    /\ closed = FALSE
    /\ mainpc = "send"
    /\ wpc = [w \in Workers |-> "recv"]
    /\ wjob = [w \in Workers |-> 0]
    /\ mu = 0
    /\ orders = EmptyLedger
    /\ shipped = << >>
    /\ shippedIDs = {}
    /\ bar = 0
    /\ upstream = [m \in MsgIds |-> "none"]
    /\ applied = << >>

\* for _, m := range allMessages { jobs <- m.Id }: blocks while the buffer is full.
Send ==
    /\ mainpc = "send"
    /\ sent < Len(allMessages)
    /\ Len(jobs) < JobsCap
    /\ jobs' = Append(jobs, sent + 1)
    /\ sent' = sent + 1
    /\ UNCHANGED <<allMessages, closed, mainpc, wpc, wjob, mu, orders, shipped,
                   shippedIDs, bar, upstream, applied>>

\* The producer without close(jobs).
CloseLeavesOpen ==
    /\ mainpc = "send"
    /\ sent = Len(allMessages)
    /\ mainpc' = "wait"
    /\ UNCHANGED <<allMessages, sent, jobs, closed, wpc, wjob, mu, orders, shipped,
                   shippedIDs, bar, upstream, applied>>

\* close(jobs)
Close ==
    /\ mainpc = "send"
    /\ sent = Len(allMessages)
    /\ closed' = TRUE
    /\ mainpc' = "wait"
    /\ UNCHANGED <<allMessages, sent, jobs, wpc, wjob, mu, orders, shipped,
                   shippedIDs, bar, upstream, applied>>

\* wg.Wait(); return orders, shipped, nil
Return ==
    /\ mainpc = "wait"
    /\ \A w \in Workers : wpc[w] = "exited"
    /\ mainpc' = "returned"
    /\ UNCHANGED <<allMessages, sent, jobs, closed, wpc, wjob, mu, orders, shipped,
                   shippedIDs, bar, upstream, applied>>

\* for id := range jobs: a worker takes the next ID.
Recv(w) ==
    /\ wpc[w] = "recv"
    /\ jobs # << >>
    /\ wjob' = [wjob EXCEPT ![w] = Head(jobs)]
    /\ jobs' = Tail(jobs)
    /\ wpc' = [wpc EXCEPT ![w] = "fetch"]
    /\ UNCHANGED <<allMessages, sent, closed, mainpc, mu, orders, shipped,
                   shippedIDs, bar, upstream, applied>>

\* The range loop ends on the closed, drained channel: defer wg.Done().
Exit(w) ==
    /\ wpc[w] = "recv"
    /\ jobs = << >>
    /\ closed
    /\ wpc' = [wpc EXCEPT ![w] = "exited"]
    /\ UNCHANGED <<allMessages, sent, jobs, closed, mainpc, wjob, mu, orders,
                   shipped, shippedIDs, bar, upstream, applied>>

\* The error branch with bar.Add(1) left out.
skipMessageUncounted(count) == count

\* The error branch of the worker: the message is logged, counted (bar.Add(1))
\* and skipped.
skipMessage(count) == count + 1

\* Whether the worker enters the critical section for a fetched message: the
\* conditions of the subject switch that are evaluated outside the lock.
NeedsLock(msg) ==
    LET kind == Classify(msg.subject)
    IN  CASE kind \in {"Canceled", "PaymentFailureCanceled"} -> TRUE
          [] kind = "Shipped" -> Len(processShippedEmail(msg)) > 0
          [] kind = "Arrived" -> processDeliveredEmail(msg) # << >>
          [] OTHER -> msg.doc.found /\ extractOrderInfo(msg.doc, msg.subject).ID # << >>

\* The fetch step with a message that yields nothing left uncounted.
FetchCountsErrorsOnly(w) ==
    /\ wpc[w] = "fetch"
    /\ \E resps \in PlansFor(wjob[w]) :
         LET got == getMessage(resps)
             msg == allMessages[wjob[w]]
         IN  /\ upstream' = [upstream EXCEPT ![wjob[w]] = UpstreamClass(resps)]
             /\ IF got.ok /\ NeedsLock(msg)
                THEN /\ wpc' = [wpc EXCEPT ![w] = "lock"]
                     /\ UNCHANGED <<wjob, bar>>
                ELSE /\ wpc' = [wpc EXCEPT ![w] = "recv"]
                     /\ wjob' = [wjob EXCEPT ![w] = 0]
                     /\ bar' = IF got.ok THEN bar ELSE skipMessage(bar)
    /\ UNCHANGED <<allMessages, sent, jobs, closed, mainpc, mu, orders, shipped,
                   shippedIDs, applied>>

\* msg, err := getMessage(id) with what follows outside the lock: on an error
\* the message is logged, counted and skipped; a message that changes nothing
\* is counted; any other goes on to take the lock.
Fetch(w) ==
    /\ wpc[w] = "fetch"
    /\ \E resps \in PlansFor(wjob[w]) :
         LET got == getMessage(resps)
             msg == allMessages[wjob[w]]
         IN  /\ upstream' = [upstream EXCEPT ![wjob[w]] = UpstreamClass(resps)]
             /\ IF got.ok /\ NeedsLock(msg)
                THEN /\ wpc' = [wpc EXCEPT ![w] = "lock"]
                     /\ UNCHANGED <<wjob, bar>>
                ELSE /\ wpc' = [wpc EXCEPT ![w] = "recv"]
                     /\ wjob' = [wjob EXCEPT ![w] = 0]
                     /\ bar' = IF got.ok THEN bar + 1 ELSE skipMessage(bar)
    /\ UNCHANGED <<allMessages, sent, jobs, closed, mainpc, mu, orders, shipped,
                   shippedIDs, applied>>

\* mu.Lock() that does not wait for the mutex to be free.
LockWithoutWaiting(w) ==
    /\ wpc[w] = "lock"
    /\ mu' = w
    /\ wpc' = [wpc EXCEPT ![w] = "crit"]
    /\ UNCHANGED <<allMessages, sent, jobs, closed, mainpc, wjob, orders, shipped,
                   shippedIDs, bar, upstream, applied>>

\* mu.Lock()
Lock(w) ==
    /\ wpc[w] = "lock"
    /\ mu = 0
    /\ mu' = w
    /\ wpc' = [wpc EXCEPT ![w] = "crit"]
    /\ UNCHANGED <<allMessages, sent, jobs, closed, mainpc, wjob, orders, shipped,
                   shippedIDs, bar, upstream, applied>>

\* The ledger after the critical section of a message: <<orders, shipped, shippedIDs>>.
Dispatch(msg, os, sh, ids) ==
    LET kind == Classify(msg.subject)
    IN  CASE kind = "Canceled" ->
               <<processCanceledEmail(msg.subject, os), sh, ids>>
          [] kind = "PaymentFailureCanceled" ->
               <<processPaymentFailCancelEmail(msg, os), sh, ids>>
          [] kind = "Shipped" ->
               <<os>> \o addShipped(sh, ids, processShippedEmail(msg))
          [] kind = "Arrived" ->
               <<os>> \o addDelivered(sh, ids, processDeliveredEmail(msg))
          [] OTHER ->
               <<mergeOrCreateOrder(os, extractOrderInfo(msg.doc, msg.subject)), sh, ids>>

\* The critical section of the subject switch, mu.Unlock() and bar.Add(1).
Crit(w) ==
    /\ wpc[w] = "crit"
    /\ mu = w
    /\ LET after == Dispatch(allMessages[wjob[w]], orders, shipped, shippedIDs)
       IN  /\ orders' = after[1]
           /\ shipped' = after[2]
           /\ shippedIDs' = after[3]
    /\ applied' = Append(applied, wjob[w])
    /\ mu' = 0
    /\ bar' = bar + 1
    /\ wpc' = [wpc EXCEPT ![w] = "recv"]
    /\ wjob' = [wjob EXCEPT ![w] = 0]
    /\ UNCHANGED <<allMessages, sent, jobs, closed, mainpc, upstream>>

\* ======================= ProcessEmails, the requeue variant (gmail.go)
\* Rate-limited answers the upstream gives for one message in the model.
MaxRequeues == 1

\* strings.Contains(subject, word) for a word that a token holds.
ContainsWord(subject, word) ==
    \E i \in 1..Len(subject) :
        \/ subject[i] = word
        \/ <<word, subject[i]>> \in {<<"Canceled", "Canceled:">>, <<"Shipped", "Shipped:">>}

RECURSIVE Flatten(_)
Flatten(texts) == IF texts = << >> THEN << >> ELSE Head(texts) \o Flatten(Tail(texts))

\* extractShippingInfo of the variant: one record per message, the texts of
\* all tracking links and of all arrival dates run together.
requeueShippingInfo(doc) ==
    [ID |-> ReplaceAll(doc.anchor, "-"), TrackingNumber |-> Flatten(doc.tracks),
     Carrier |-> doc.carrier, EstimatedArrival |-> doc.arrivals]

\* processShippedEmail of the variant: shippedOrders is keyed by order ID and
\* keeps the first record of an order. The map is <<shipped, shippedIDs>>,
\* its values and its keys.
requeueShipped(msg, shippedOrders, keys) ==
    LET order == requeueShippingInfo(msg.doc)
    IN  IF ~msg.doc.found \/ order.ID = << >> \/ order.ID \in keys
        THEN <<shippedOrders, keys>>
        ELSE <<Append(shippedOrders, order), keys \cup {order.ID}>>

\* processOrderConfirmationEmail of the variant.
requeueConfirmation(msg, os) ==
    LET order == extractOrderInfo(msg.doc, msg.subject)
    IN  IF ~msg.doc.found \/ order.ID = << >> THEN os
        ELSE mergeOrCreateOrder(os, order)

\* The subject switch of the variant, under the lock.
requeueSwitch(msg, os, sh, ids) ==
    IF ContainsWord(msg.subject, "Canceled")
    THEN <<processCanceledEmail(msg.subject, os), sh, ids>>
    ELSE IF ContainsWord(msg.subject, "Shipped")
         THEN <<os>> \o requeueShipped(msg, sh, ids)
         ELSE <<requeueConfirmation(msg, os), sh, ids>>

\* What the variant keeps of the upstream per message: the rate-limited
\* answers given so far and what became of the message.
NoFetch == [limited |-> 0, fate |-> "none"]

\* ProcessEmails of the variant is called: jobs has room for every message.
QInit ==
    /\ allMessages \in [MsgIds -> OrderMsgs] \cup [MsgIds -> ShipMsgs]
    /\ sent = 0
    /\ jobs = << >>
    /\ closed = FALSE
    /\ mainpc = "send"
    /\ wpc = [w \in Workers |-> "recv"]
    /\ wjob = [w \in Workers |-> 0]
    /\ mu = 0
    /\ orders = EmptyLedger
    /\ shipped = << >>
    /\ shippedIDs = {}
    /\ bar = 0
    /\ upstream = [m \in MsgIds |-> NoFetch]
    /\ applied = << >>

\* A goroutine has panicked: the program is gone.
Crashed == \E w \in Workers : wpc[w] = "panicked"

\* for _, m := range allMessages { jobs <- m.Id } on make(chan string, len(allMessages))
RequeueSend ==
    /\ mainpc = "send"
    /\ sent < Len(allMessages)
    /\ Len(jobs) < Len(allMessages)
    /\ jobs' = Append(jobs, sent + 1)
    /\ sent' = sent + 1
    /\ UNCHANGED <<allMessages, closed, mainpc, wpc, wjob, mu, orders, shipped,
                   shippedIDs, bar, upstream, applied>>

\* srv.Users.Messages.Get(...).Do() and the error branch up to the sleep: a
\* rate-limited message is kept for the requeue, any other failure is logged
\* and the message dropped.
RequeueFetch(w) ==
    /\ wpc[w] = "fetch"
    /\ \E answer2 \in {"ok", "rateLimitExceeded"} \cup PermanentErrors :
         /\ answer2 = "rateLimitExceeded" => upstream[wjob[w]].limited < MaxRequeues
         /\ CASE answer2 = "ok" ->
                   /\ wpc' = [wpc EXCEPT ![w] = "lock"]
                   /\ upstream' = [upstream EXCEPT ![wjob[w]].fate = "fetched"]
                   /\ UNCHANGED wjob
              [] answer2 = "rateLimitExceeded" ->
                   /\ wpc' = [wpc EXCEPT ![w] = "requeue"]
                   /\ upstream' = [upstream EXCEPT ![wjob[w]].limited = @ + 1]
                   /\ UNCHANGED wjob
              [] OTHER ->
                   /\ wpc' = [wpc EXCEPT ![w] = "recv"]
                   /\ upstream' = [upstream EXCEPT ![wjob[w]].fate = "abandoned"]
                   /\ wjob' = [wjob EXCEPT ![w] = 0]
    /\ UNCHANGED <<allMessages, sent, jobs, closed, mainpc, mu, orders, shipped,
                   shippedIDs, bar, applied>>

\* jobs <- msgID by the worker: a send on the closed channel panics, a send
\* on the full channel waits.
RequeuePush(w) ==
    /\ wpc[w] = "requeue"
    /\ IF closed
       THEN /\ wpc' = [wpc EXCEPT ![w] = "panicked"]
            /\ UNCHANGED <<jobs, wjob>>
       ELSE /\ Len(jobs) < Len(allMessages)
            /\ jobs' = Append(jobs, wjob[w])
            /\ wpc' = [wpc EXCEPT ![w] = "recv"]
            /\ wjob' = [wjob EXCEPT ![w] = 0]
    /\ UNCHANGED <<allMessages, sent, closed, mainpc, mu, orders, shipped,
                   shippedIDs, bar, upstream, applied>>

\* The subject switch under the lock, mu.Unlock() and bar.Add(1).
RequeueCrit(w) ==
    /\ wpc[w] = "crit"
    /\ mu = w
    /\ LET after == requeueSwitch(allMessages[wjob[w]], orders, shipped, shippedIDs)
       IN  /\ orders' = after[1]
           /\ shipped' = after[2]
           /\ shippedIDs' = after[3]
    /\ applied' = Append(applied, wjob[w])
    /\ mu' = 0
    /\ bar' = bar + 1
    /\ wpc' = [wpc EXCEPT ![w] = "recv"]
    /\ wjob' = [wjob EXCEPT ![w] = 0]
    /\ UNCHANGED <<allMessages, sent, jobs, closed, mainpc, upstream>>

\* =================================================== the web scan (handlers.go)
\* Concurrent start-scan requests in the model.
MaxReqs == 2
\* Most messages a listing returns in the model.
MaxScanMsgs == 2

\* watchProgress: time.NewTicker(5 * time.Second)
PollInterval == 5
\* watchProgress: idle > 30*time.Second
StallThreshold == 30

Reqs == 1..MaxReqs

TimeoutError == "Scan timed out - no progress for 30 seconds. Please try again."
ListError == "list messages: upstream error"
CtxError == "context canceled"

VARIABLES
    idle,        \* ticker periods since activeScan.LastProgressUpdate, up to IdleCap
    activeScan,  \* s.activeScan: the record the pointer refers to (set: non-nil)
    hpc,         \* each HandleScan request: "check", "install", or its response
    rpc,         \* each runScan goroutine: "none", "list", "process", "defer", "done"
    wdpc,        \* each watchProgress goroutine: "none", "ticking", "exited"
    wdDue,       \* each watchdog: its ticker has fired and the tick is not taken
    cancelled,   \* each scan's context: its watchdog called cancel()
    total,       \* each runScan's len(messages)
    pdone,       \* each pipeline's processed counter
    pendingCb,   \* each pipeline's onProgress calls made but not yet run
    outcome,     \* each runScan: how it left its body ("none" while inside)
    cbSame       \* a callback has found its count recorded in this ScanProgress

svars == <<idle, activeScan, hpc, rpc, wdpc, wdDue, cancelled, total, pdone,
           pendingCb, outcome, cbSame>>

\* time.Since(LastProgressUpdate) is only compared with the threshold: the
\* clock is kept as the age of LastProgressUpdate, counted up to the first
\* value above the threshold.
IdleCap == StallThreshold \div PollInterval + 1

\* Each pipeline's ledger: the orders of the jobs it has merged.
pOrders(k) == 1..pdone[k]

\* s.activeScan == nil
NoScan ==
    [set |-> FALSE, InProgress |-> FALSE, TotalMessages |-> 0, Processed |-> 0,
     Orders |-> {}, HasOrders |-> FALSE, Error |-> "", owner |-> 0]

\* &ScanProgress{InProgress: true, StartTime: now, LastProgressUpdate: now, ...};
\* LastProgressUpdate is kept in idle, owner records the request that installed it.
NewScan(r) ==
    [set |-> TRUE, InProgress |-> TRUE, TotalMessages |-> 0, Processed |-> 0,
     Orders |-> {}, HasOrders |-> FALSE, Error |-> "", owner |-> r]

SInit ==
    /\ idle = 0
    /\ activeScan = NoScan
    /\ hpc = [r \in Reqs |-> "check"]
    /\ rpc = [r \in Reqs |-> "none"]
    /\ wdpc = [r \in Reqs |-> "none"]
    /\ wdDue = [r \in Reqs |-> FALSE]
    /\ cancelled = [r \in Reqs |-> FALSE]
    /\ total = [r \in Reqs |-> 0]
    /\ pdone = [r \in Reqs |-> 0]
    /\ pendingCb = [r \in Reqs |-> {}]
    /\ outcome = [r \in Reqs |-> "none"]
    /\ cbSame = FALSE

\* The in-progress check with the conflict also written to the running scan.
HandleScanCheckRecordsConflict(r) ==
    /\ hpc[r] = "check"
    /\ \A q \in Reqs : q < r => hpc[q] # "check"
    /\ hpc' = [hpc EXCEPT ![r] =
                 IF activeScan.set /\ activeScan.InProgress
                 THEN "409 Conflict" ELSE "install"]
    /\ activeScan' = IF activeScan.set /\ activeScan.InProgress
                     THEN [activeScan EXCEPT !.Error = "Scan already in progress"]
                     ELSE activeScan
    /\ UNCHANGED <<idle, rpc, wdpc, wdDue, cancelled, total, pdone,
                   pendingCb, outcome, cbSame>>

\* HandleScan, lines 102-108: the in-progress check under scanMu. The requests
\* are numbered in the order in which they take the lock here.
HandleScanCheck(r) ==
    /\ hpc[r] = "check"
    /\ \A q \in Reqs : q < r => hpc[q] # "check"
    /\ hpc' = [hpc EXCEPT ![r] =
                 IF activeScan.set /\ activeScan.InProgress
                 THEN "409 Conflict" ELSE "install"]
    /\ UNCHANGED <<idle, activeScan, rpc, wdpc, wdDue, cancelled, total, pdone,
                   pendingCb, outcome, cbSame>>

\* HandleScan, lines 110-131: the body does not decode, or no Gmail service.
HandleScanBadRequest(r) ==
    /\ hpc[r] = "install"
    /\ hpc' = [hpc EXCEPT ![r] = "400 Bad Request"]
    /\ UNCHANGED <<idle, activeScan, rpc, wdpc, wdDue, cancelled, total, pdone,
                   pendingCb, outcome, cbSame>>

\* HandleScan, lines 133-152: the new ScanProgress is installed under scanMu,
\* the watchdog and runScan are started.
HandleScanInstall(r) ==
    /\ hpc[r] = "install"
    /\ activeScan' = NewScan(r)
    /\ idle' = 0
    /\ wdpc' = [wdpc EXCEPT ![r] = "ticking"]
    /\ rpc' = [rpc EXCEPT ![r] = "list"]
    /\ hpc' = [hpc EXCEPT ![r] = "202 Accepted"]
    /\ cbSame' = FALSE
    /\ UNCHANGED <<wdDue, cancelled, total, pdone, pendingCb, outcome>>

\* The stall test with the threshold itself counted as a stall.
StalledAtThreshold(age) == age * PollInterval >= StallThreshold

\* idle > 30*time.Second, with the idle time in ticker periods.
Stalled(age) == age * PollInterval > StallThreshold

\* A pass of the ticker loop that only looks for the end of the scan.
WatchProgressObservesOnly(k) ==
    /\ wdpc[k] = "ticking"
    /\ wdDue[k]
    /\ wdDue' = [wdDue EXCEPT ![k] = FALSE]
    /\ wdpc' = IF ~activeScan.set \/ ~activeScan.InProgress
               THEN [wdpc EXCEPT ![k] = "exited"] ELSE wdpc
    /\ UNCHANGED <<idle, activeScan, hpc, rpc, cancelled, total, pdone,
                   pendingCb, outcome, cbSame>>

\* watchProgress: one pass of the ticker loop.
WatchProgress(k) ==
    /\ wdpc[k] = "ticking"
    /\ wdDue[k]
    /\ wdDue' = [wdDue EXCEPT ![k] = FALSE]
    /\ IF ~activeScan.set \/ ~activeScan.InProgress
       THEN /\ wdpc' = [wdpc EXCEPT ![k] = "exited"]
            /\ UNCHANGED <<activeScan, cancelled>>
       ELSE IF Stalled(idle)
            THEN /\ activeScan' = [activeScan EXCEPT !.Error = TimeoutError,
                                                     !.InProgress = FALSE]
                 /\ cancelled' = [cancelled EXCEPT ![k] = TRUE]
                 /\ wdpc' = [wdpc EXCEPT ![k] = "exited"]
            ELSE UNCHANGED <<activeScan, cancelled, wdpc>>
    /\ UNCHANGED <<idle, hpc, rpc, total, pdone, pendingCb, outcome, cbSame>>

\* Time passes by one ticker period, once every running watchdog has taken
\* the tick that was due: the tickers fire again.
Tick ==
    /\ \A k \in Reqs : wdpc[k] = "ticking" => ~wdDue[k]
    /\ idle' = IF idle < IdleCap THEN idle + 1 ELSE idle
    /\ wdDue' = [k \in Reqs |-> wdpc[k] = "ticking"]
    /\ UNCHANGED <<activeScan, hpc, rpc, wdpc, cancelled, total, pdone,
                   pendingCb, outcome, cbSame>>

\* if s.activeScan != nil { s.activeScan.<field> = ... } under scanMu.
WithScan(scan, updated) == IF scan.set THEN updated ELSE scan

\* runScan, lines 207-217: FetchMessages fails.
RunScanListFails(k) ==
    /\ rpc[k] = "list"
    /\ activeScan' = WithScan(activeScan, [activeScan EXCEPT !.Error = ListError])
    /\ rpc' = [rpc EXCEPT ![k] = "defer"]
    /\ UNCHANGED <<idle, hpc, wdpc, wdDue, cancelled, total, pdone, pendingCb,
                   cbSame>>
    /\ outcome' = [outcome EXCEPT ![k] = "list error"]

\* runScan, lines 207-224: FetchMessages returns n messages.
RunScanListed(k) ==
    /\ rpc[k] = "list"
    /\ \E n \in 0..MaxScanMsgs :
         /\ total' = [total EXCEPT ![k] = n]
         /\ activeScan' = WithScan(activeScan, [activeScan EXCEPT !.TotalMessages = n])
    /\ rpc' = [rpc EXCEPT ![k] = "process"]
    /\ UNCHANGED <<idle, hpc, wdpc, wdDue, cancelled, pdone, pendingCb, outcome, cbSame>>

\* The pipeline (spec 4.4, steps 4e-4f and 6): a worker whose context is not
\* cancelled merges a job's order, increments the processed counter and calls
\* onProgress with the new count.
PipelineJob(k) ==
    /\ rpc[k] = "process"
    /\ ~cancelled[k]
    /\ pdone[k] < total[k]
    /\ pdone' = [pdone EXCEPT ![k] = pdone[k] + 1]
    /\ pendingCb' = [pendingCb EXCEPT ![k] = pendingCb[k] \cup {pdone[k] + 1}]
    /\ UNCHANGED <<idle, activeScan, hpc, rpc, wdpc, wdDue, cancelled, total, outcome, cbSame>>

\* The test of progressCallback without the comparison of the counts.
CallbackWritesAlways(scan, processed) == scan.set

\* runScan, lines 227-234: progressCallback(processed) changes the scan when
\* there is one and its count differs.
CallbackWrites(scan, processed) == scan.set /\ scan.Processed # processed

ProgressCallback(k) ==
    /\ rpc[k] = "process"
    /\ \E processed \in pendingCb[k] :
         /\ IF CallbackWrites(activeScan, processed)
            THEN /\ activeScan' = [activeScan EXCEPT !.Processed = processed]
                 /\ idle' = 0
                 /\ UNCHANGED cbSame
            ELSE /\ UNCHANGED <<activeScan, idle>>
                 /\ cbSame' = (cbSame \/ activeScan.set)
         /\ pendingCb' = [pendingCb EXCEPT ![k] = pendingCb[k] \ {processed}]
    /\ UNCHANGED <<hpc, rpc, wdpc, wdDue, cancelled, total, pdone, outcome>>

\* runScan, lines 236-245: the pipeline returns a cancellation error once its
\* context is cancelled and its workers are done (spec 4.4, step 6).
RunScanFailed(k) ==
    /\ rpc[k] = "process"
    /\ cancelled[k]
    /\ pendingCb[k] = {}
    /\ activeScan' = WithScan(activeScan, [activeScan EXCEPT !.Error = CtxError])
    /\ rpc' = [rpc EXCEPT ![k] = "defer"]
    /\ UNCHANGED <<idle, hpc, wdpc, wdDue, cancelled, total, pdone, pendingCb,
                   cbSame>>
    /\ outcome' = [outcome EXCEPT ![k] = "pipeline error"]

\* runScan, lines 236 and 247-253: the pipeline returns its ledger.
RunScanSucceeded(k) ==
    /\ rpc[k] = "process"
    /\ pdone[k] = total[k]
    /\ pendingCb[k] = {}
    /\ activeScan' = WithScan(activeScan,
                        [activeScan EXCEPT !.Orders = pOrders(k), !.HasOrders = TRUE,
                                           !.Processed = total[k]])
    /\ rpc' = [rpc EXCEPT ![k] = "defer"]
    /\ UNCHANGED <<idle, hpc, wdpc, wdDue, cancelled, total, pdone, pendingCb,
                   cbSame>>
    /\ outcome' = [outcome EXCEPT ![k] = "completed"]

\* runScan, lines 181-187: the deferred completion; the goroutine ends and
\* its locals (the messages, the pipeline's ledger) are gone.
RunScanDeferred(k) ==
    /\ rpc[k] = "defer"
    /\ activeScan' = WithScan(activeScan, [activeScan EXCEPT !.InProgress = FALSE])
    /\ rpc' = [rpc EXCEPT ![k] = "done"]
    /\ total' = [total EXCEPT ![k] = 0]
    /\ pdone' = [pdone EXCEPT ![k] = 0]
    /\ UNCHANGED <<idle, hpc, wdpc, wdDue, cancelled, pendingCb, outcome, cbSame>>

\* HandleReport, lines 287-296: what a report request can read.
HandleReport(scan) ==
    IF ~scan.set \/ ~scan.HasOrders THEN [status |-> 404, orders |-> {}]
    ELSE [status |-> 200, orders |-> scan.Orders]

\* ============================================ the message cache (cache.go)
\* Message IDs the cache is used with in the model.
MaxKeys == 2
\* c.ttl in seconds (24 hours in the callers; scaled down).
CacheTTL == 1
\* Clock readings per second: time.Now() is finer than the whole seconds that
\* Unix() keeps.
TicksPerSecond == 2

CacheKeys == 1..MaxKeys

\* The clock readings of the model: long enough for an entry to be written,
\* to expire and to be written again.
MaxClock == (CacheTTL + 1) * TicksPerSecond - 1

\* Time.Unix(): whole seconds, rounded down.
Unix(t) == t \div TicksPerSecond

\* time.Now().Add(-c.ttl).Unix()
Cutoff(now) == Unix(now - CacheTTL * TicksPerSecond)

\* A *report.Order or a *CachedResult: << >> is nil, <<v>> points to v.
NilPtr == << >>
Ptr(v) == <<v>>

\* A Go slice: a nil slice and an empty slice are different values.
NilSlice == [isNil |-> TRUE, elems |-> << >>]
Slice(elems) == [isNil |-> FALSE, elems |-> elems]

\* CachedResult{Order, Shipped}
CachedResult(order, list) == [Order |-> order, Shipped |-> list]

\* The results the workers store: worker w always stores SampleResult(w).
SampleResult(w) ==
    CASE w = 1 -> CachedResult(Ptr(extractOrderInfo(ConfirmA.doc, ConfirmA.subject)),
                               NilSlice)
      [] w = 2 -> CachedResult(NilPtr, Slice(processShippedEmail(ShipA1Dup)))
      [] w = 3 -> CachedResult(Ptr(CanceledOrder(ReplaceAll(OrderA, "-"))), Slice(<< >>))
      [] OTHER -> CachedResult(NilPtr, NilSlice)

\* ---- encoding/json: a document is a tagged tree
JNull == [json |-> "null", members |-> << >>]
JString(s) == [json |-> "string", members |-> <<s>>]
JNumber(n) == [json |-> "number", members |-> <<n>>]
JArray(elems) == [json |-> "array", members |-> elems]
JObject(fields) == [json |-> "object", members |-> fields]
JField(name, value) == [name |-> name, value |-> value]

\* The value of an object's field.
Field(obj, name) ==
    (CHOOSE i \in 1..Len(obj.members) : obj.members[i].name = name)

MarshalItem(item) ==
    JObject(<<JField("Name", JString(item.Name)),
              JField("Quantity", JNumber(item.Quantity))>>)

\* []report.Item: the extractor's nil slice is the empty sequence.
MarshalItems(items) ==
    IF items = << >> THEN JNull
    ELSE JArray([i \in 1..Len(items) |-> MarshalItem(items[i])])

MarshalOrder(order) ==
    JObject(<<JField("ID", JString(order.ID)),
              JField("Items", MarshalItems(order.Items)),
              JField("Total", JString(order.Total)),
              JField("OrderDate", JString(order.OrderDate)),
              JField("Status", JString(order.Status))>>)

MarshalShipped(rec) ==
    JObject(<<JField("ID", JString(rec.ID)),
              JField("TrackingNumber", JString(rec.TrackingNumber)),
              JField("Carrier", JString(rec.Carrier)),
              JField("EstimatedArrival", JString(rec.EstimatedArrival))>>)

\* json.Marshal(result)
jsonMarshal(result) ==
    JObject(<<JField("Order",
                     IF result.Order = NilPtr THEN JNull
                     ELSE MarshalOrder(result.Order[1])),
              JField("Shipped",
                     IF result.Shipped.isNil THEN JNull
                     ELSE JArray([i \in 1..Len(result.Shipped.elems) |->
                                     MarshalShipped(result.Shipped.elems[i])]))>>)

Str(doc, name) == doc.members[Field(doc, name)].value.members[1]

UnmarshalItems(doc) ==
    IF doc.json = "null" THEN << >>
    ELSE [i \in 1..Len(doc.members) |->
            [Name |-> Str(doc.members[i], "Name"),
             Quantity |-> Str(doc.members[i], "Quantity")]]

\* The order decoded without its items.
UnmarshalOrderWithoutItems(doc) ==
    [ID        |-> Str(doc, "ID"),
     Items     |-> << >>,
     Total     |-> Str(doc, "Total"),
     OrderDate |-> Str(doc, "OrderDate"),
     Status    |-> Str(doc, "Status")]

UnmarshalOrder(doc) ==
    [ID        |-> Str(doc, "ID"),
     Items     |-> UnmarshalItems(doc.members[Field(doc, "Items")].value),
     Total     |-> Str(doc, "Total"),
     OrderDate |-> Str(doc, "OrderDate"),
     Status    |-> Str(doc, "Status")]

UnmarshalShipped(doc) ==
    [ID               |-> Str(doc, "ID"),
     TrackingNumber   |-> Str(doc, "TrackingNumber"),
     Carrier          |-> Str(doc, "Carrier"),
     EstimatedArrival |-> Str(doc, "EstimatedArrival")]

\* json.Unmarshal(data, &result) into a zero CachedResult: null leaves the
\* nil pointer and the nil slice, an array gives a non-nil slice.
jsonUnmarshal(data) ==
    LET order == data.members[Field(data, "Order")].value
        list == data.members[Field(data, "Shipped")].value
    IN  CachedResult(
            IF order.json = "null" THEN NilPtr ELSE Ptr(UnmarshalOrder(order)),
            IF list.json = "null" THEN NilSlice
            ELSE Slice([i \in 1..Len(list.members) |->
                          UnmarshalShipped(list.members[i])]))

\* ---- the table parsed_results and the prepared statements
VARIABLES
    rows,     \* parsed_results: for each message_id its row, if any
    clock,    \* time.Now(), in clock readings
    cpc,      \* each worker's one Set: "idle", "exec" (Marshal done), "done"
    cset,     \* each worker's Set: the arguments of its setStmt.Exec (once
              \* executed, only the message ID is kept)
    answer,   \* the answer of the Get that has just returned, if any
    lastSet   \* for each key, the Set executed last since the last Clear

cvars == <<rows, clock, cpc, cset, answer, lastSet>>

NoRow == [present |-> FALSE, result_data |-> JNull, created_at |-> 0]
Row(data, createdAt) ==
    [present |-> TRUE, result_data |-> data, created_at |-> createdAt]

NoArgs == [msgID |-> 0, data |-> JNull, createdAt |-> 0, at |-> 0]
NoGet == [returned |-> FALSE, msgID |-> 0, found |-> FALSE, result |-> NilPtr]
NoSet == [done |-> FALSE, by |-> 0, at |-> 0]

\* SELECT result_data FROM parsed_results WHERE message_id = ? (no cutoff).
getStmtAnyAge(table, msgID, cutoff) ==
    IF table[msgID].present THEN <<table[msgID].result_data>> ELSE << >>

\* SELECT result_data FROM parsed_results
\*   WHERE message_id = ? AND created_at > ?
getStmt(table, msgID, cutoff) ==
    IF table[msgID].present /\ table[msgID].created_at > cutoff
    THEN <<table[msgID].result_data>>
    ELSE << >>

\* INSERT OR IGNORE: an existing row is kept.
setStmtKeepsExisting(table, msgID, data, createdAt) ==
    IF table[msgID].present THEN table
    ELSE [table EXCEPT ![msgID] = Row(data, createdAt)]

\* INSERT OR REPLACE INTO parsed_results (message_id, result_data, created_at)
setStmt(table, msgID, data, createdAt) ==
    [table EXCEPT ![msgID] = Row(data, createdAt)]

\* DELETE FROM parsed_results WHERE created_at <= ?
deleteOlder(table, cutoff) ==
    [k \in DOMAIN table |->
        IF table[k].present /\ table[k].created_at <= cutoff THEN NoRow
        ELSE table[k]]

\* MessageCache.Get: the answer for msgID at clock reading now.
Get(table, msgID, now) ==
    LET found == getStmt(table, msgID, Cutoff(now))
    IN  IF found = << >>
        THEN [returned |-> TRUE, msgID |-> msgID, found |-> FALSE, result |-> NilPtr]
        ELSE [returned |-> TRUE, msgID |-> msgID, found |-> TRUE,
              result |-> Ptr(jsonUnmarshal(found[1]))]

\* MessageCache.Stats: SELECT COUNT(*) (the byte size of the rows is not
\* modelled).
Stats(table) == [total |-> Cardinality({k \in DOMAIN table : table[k].present})]

CInit ==
    /\ rows = [k \in CacheKeys |-> NoRow]
    /\ clock = 0
    /\ cpc = [w \in Workers |-> "idle"]
    /\ cset = [w \in Workers |-> NoArgs]
    /\ answer = NoGet
    /\ lastSet = [k \in CacheKeys |-> NoSet]

\* The cache is not in use.
CIdle ==
    /\ rows = << >>
    /\ clock = 0
    /\ cpc = << >>
    /\ cset = << >>
    /\ answer = NoGet
    /\ lastSet = << >>

\* MessageCache.Get(msgID), lines 107-125.
GetCall(k) ==
    /\ answer' = Get(rows, k, clock)
    /\ UNCHANGED <<rows, clock, cpc, cset, lastSet>>

\* MessageCache.Set, lines 128-136: the result is marshalled and, with the
\* statement lock read-held, time.Now().Unix() is taken as the argument of
\* setStmt.Exec, which then waits for the one connection of the pool.
SetMarshal(w, k) ==
    /\ cpc[w] = "idle"
    /\ cpc' = [cpc EXCEPT ![w] = "exec"]
    /\ cset' = [cset EXCEPT ![w] = [msgID |-> k,
                                    data |-> jsonMarshal(SampleResult(w)),
                                    createdAt |-> Unix(clock),
                                    at |-> clock]]
    /\ answer' = NoGet
    /\ UNCHANGED <<rows, clock, lastSet>>

\* MessageCache.Set, line 136: the statement runs on the connection.
SetExec(w) ==
    /\ cpc[w] = "exec"
    /\ rows' = setStmt(rows, cset[w].msgID, cset[w].data, cset[w].createdAt)
    /\ lastSet' = [lastSet EXCEPT ![cset[w].msgID] =
                      [done |-> TRUE, by |-> w, at |-> cset[w].at]]
    /\ cpc' = [cpc EXCEPT ![w] = "done"]
    /\ cset' = [cset EXCEPT ![w] = [NoArgs EXCEPT !.msgID = cset[w].msgID]]
    /\ answer' = NoGet
    /\ UNCHANGED clock

\* MessageCache.Clear, lines 140-147: DELETE FROM parsed_results; VACUUM.
Clear ==
    /\ \E k \in CacheKeys : rows[k].present
    /\ rows' = [k \in CacheKeys |-> NoRow]
    /\ lastSet' = [k \in CacheKeys |-> NoSet]
    /\ answer' = NoGet
    /\ UNCHANGED <<clock, cpc, cset>>

\* MessageCache.periodicCleanup, lines 160-163: one pass of the sweep.
periodicCleanup ==
    /\ rows' = deleteOlder(rows, Cutoff(clock))
    /\ rows' # rows
    /\ answer' = NoGet
    /\ UNCHANGED <<clock, cpc, cset, lastSet>>

\* Time passes.
ClockTick ==
    /\ clock < MaxClock
    /\ clock' = clock + 1
    /\ answer' = NoGet
    /\ UNCHANGED <<rows, cpc, cset, lastSet>>

\* ================== the pipeline worker with the cache (spec 4.4, step 4)
VARIABLES
    todo,        \* the message IDs the worker has still to take, in order
    jpc,         \* the worker's step in its job: "check", "fetch", "store", "merge"
    jres,        \* the (order, shipped) result the worker has in hand
    jhow,        \* how the job went so far: hit, upstream calls, cache write
    jlog         \* the finished jobs, each with how it went

jvars == <<todo, jpc, jres, jhow, jlog>>

NoResult == CachedResult(NilPtr, NilSlice)
NoHow == [hit |-> FALSE, fetched |-> 0, stored |-> "none"]

\* The job lists of a scan: each message ID at most once.
JobLists ==
    {q \in UNION {[1..n -> CacheKeys] : n \in 0..MaxKeys} :
        \A i, j \in DOMAIN q : q[i] = q[j] => i = j}

\* The table an earlier scan has left: for each message nothing, or its
\* result stored at clock reading 0.
StoredTables ==
    {[k \in CacheKeys |-> IF k \in S THEN Row(jsonMarshal(SampleResult(k)), Unix(0))
                          ELSE NoRow] : S \in SUBSET CacheKeys}

JIdle ==
    /\ todo = << >>
    /\ jpc = "idle"
    /\ jres = NoResult
    /\ jhow = NoHow
    /\ jlog = << >>

\* Step 4e: the delta is merged into the ledger: <<orders, shipped, shippedIDs>>.
MergeResult(result, os, sh, ids) ==
    <<IF result.Order = NilPtr THEN os ELSE mergeOrCreateOrder(os, result.Order[1])>>
        \o addShipped(sh, ids, result.Shipped.elems)

\* The job is finished: it is logged and the worker turns to the next one.
JobDone(merged) ==
    /\ jlog' = Append(jlog, [id |-> Head(todo), hit |-> jhow'.hit,
                             fetched |-> jhow'.fetched, stored |-> jhow'.stored,
                             merged |-> merged])
    /\ todo' = Tail(todo)
    /\ jpc' = "check"
    /\ jres' = NoResult

\* Step 4a: check the cache; on a hit the cached result is used directly.
JobCheck ==
    /\ jpc = "check"
    /\ todo # << >>
    /\ answer' = Get(rows, Head(todo), clock)
    /\ IF answer'.found
       THEN /\ jres' = answer'.result[1]
            /\ jhow' = [NoHow EXCEPT !.hit = TRUE]
            /\ jpc' = "merge"
       ELSE /\ jres' = NoResult
            /\ jhow' = NoHow
            /\ jpc' = "fetch"
    /\ UNCHANGED <<todo, jlog, rows, clock, cpc, cset, lastSet, pvars>>

\* Steps 4b and 4c: on a miss the message is fetched and its result
\* extracted; a message whose fetch fails is abandoned.
JobFetch ==
    /\ jpc = "fetch"
    /\ jhow' = [jhow EXCEPT !.fetched = jhow.fetched + 1]
    /\ \E ok \in BOOLEAN :
         IF ok
         THEN /\ jres' = SampleResult(Head(todo))
              /\ jpc' = "store"
              /\ UNCHANGED <<todo, jlog>>
         ELSE JobDone(FALSE)
    /\ UNCHANGED <<cvars, pvars>>

\* Step 4d: the new result is stored in the cache; a failed write is logged.
JobStore ==
    /\ jpc = "store"
    /\ \E fails \in BOOLEAN :
         IF fails
         THEN /\ jhow' = [jhow EXCEPT !.stored = "failed"]
              /\ UNCHANGED rows
         ELSE /\ jhow' = [jhow EXCEPT !.stored = "ok"]
              /\ rows' = setStmt(rows, Head(todo), jsonMarshal(jres), Unix(clock))
    /\ jpc' = "merge"
    /\ answer' = NoGet
    /\ UNCHANGED <<todo, jres, jlog, clock, cpc, cset, lastSet, pvars>>

\* Step 4e: the result in hand is merged into the ledger.
JobMerge ==
    /\ jpc = "merge"
    /\ LET after == MergeResult(jres, orders, shipped, shippedIDs)
       IN  /\ orders' = after[1]
           /\ shipped' = after[2]
           /\ shippedIDs' = after[3]
    /\ jhow' = jhow
    /\ JobDone(TRUE)
    /\ UNCHANGED <<cvars, allMessages, sent, jobs, closed, mainpc, wpc, wjob, mu, bar,
                   upstream, applied>>

\* Time passes while the worker runs.
JobClockTick ==
    /\ ClockTick
    /\ UNCHANGED <<jvars, pvars>>

\* ================================================= the report (handlers.go)
\* Most messages of the scans whose result a report is asked for.
MaxReportMsgs == 3

VARIABLES
    live         \* HandleReport: liveOrdersFiltered of the last report

rvars == <<live>>

\* No report has been asked for.
NoReport == [called |-> FALSE, orders |-> << >>]

\* The result of a scan of the messages msgs, merged one critical section
\* after the other: <<orders, shipped, shippedIDs>>.
RECURSIVE ScanLedger(_)
ScanLedger(msgs) ==
    IF msgs = << >> THEN <<EmptyLedger, << >>, {}>>
    ELSE LET before == ScanLedger(SubSeq(msgs, 1, Len(msgs) - 1))
             msg == msgs[Len(msgs)]
         IN  IF NeedsLock(msg)
             THEN Dispatch(msg, before[1], before[2], before[3])
             ELSE before

\* The orders in which a range over the map os may visit its keys.
KeyOrders(os) ==
    {p \in [1..Cardinality(DOMAIN os) -> DOMAIN os] :
        \A i, j \in DOMAIN p : p[i] = p[j] => i = j}

\* filterLiveOrders with only the shipment records looked at: the delivered
\* markers are passed over.
filterLiveOrdersSkipsMarkers(nonCanceledOrders, shippedOrders) ==
    LET ids == {shippedOrders[i].ID :
                  i \in {j \in 1..Len(shippedOrders) :
                            shippedOrders[j].TrackingNumber # <<"DELIVERED">>}}
    IN  SelectSeq(nonCanceledOrders, LAMBDA o : o.ID \notin ids)

\* filterNonCanceled: the map is visited in the order keyOrder.
filterNonCanceled(os, keyOrder) ==
    SelectSeq([i \in 1..Len(keyOrder) |-> os[keyOrder[i]]],
              LAMBDA o : o.Status # "canceled")

\* filterLiveOrders
filterLiveOrders(nonCanceledOrders, shippedOrders) ==
    LET ids == {shippedOrders[i].ID : i \in 1..Len(shippedOrders)}
    IN  SelectSeq(nonCanceledOrders, LAMBDA o : o.ID \notin ids)

\* A scan of up to MaxReportMsgs messages has stored its result.
RInit ==
    /\ \E n \in 0..MaxReportMsgs :
         \E msgs \in [1..n -> Catalogue] :
            /\ orders = ScanLedger(msgs)[1]
            /\ shipped = ScanLedger(msgs)[2]
            /\ shippedIDs = ScanLedger(msgs)[3]
    /\ allMessages = << >>
    /\ sent = 0
    /\ jobs = << >>
    /\ closed = FALSE
    /\ mainpc = "none"
    /\ wpc = [w \in Workers |-> "none"]
    /\ wjob = [w \in Workers |-> 0]
    /\ mu = 0
    /\ bar = 0
    /\ upstream = [m \in MsgIds |-> "none"]
    /\ applied = << >>
    /\ live = NoReport

RIdle == live = NoReport

\* HandleReport, lines 295-301: the live orders of the stored result.
HandleReportLiveOrders ==
    /\ \E keyOrder \in KeyOrders(orders) :
         live' = [called |-> TRUE,
                  orders |-> filterLiveOrders(filterNonCanceled(orders, keyOrder),
                                              shipped)]
    /\ UNCHANGED pvars

\* ============================= the subject switch on its own (cache.go)
\* Longest subject of the model, in tokens.
MaxSubjectLen == 3

\* The words the switch looks for, and one it does not.
SubjectTokens ==
    {"Canceled:", PayFailSuffix, "Shipped:", "Arrived:", "Delivered:",
     "thanks for your order"}

Subjects == UNION {[1..n -> SubjectTokens] : n \in 0..MaxSubjectLen}

VARIABLES
    subj,        \* the subject of the message a worker holds
    path         \* the case of the switch the worker has entered ("none": not yet)

kvars == <<subj, path>>

KInit ==
    /\ subj \in Subjects
    /\ path = "none"

KIdle ==
    /\ subj = << >>
    /\ path = "none"

\* switch { case ...: }, lines 675-726: the worker enters one case.
SubjectSwitch ==
    /\ path = "none"
    /\ path' = Classify(subj)
    /\ UNCHANGED subj

\* ==================== the accounts scanned in parallel (processAccountsInParallel)
\* Accounts scanned together in the model.
MaxAccounts == 2

Accounts == 1..MaxAccounts

\* The mailboxes of an account: up to two messages about order A, in either
\* order, or a shipment of it.
AccountMsgs == {ConfirmA, PreorderA, CancelAPlain, CancelAHyphen}

AccountMailboxes ==
    {<< >>, <<ShipA1>>, <<ConfirmA, ShipA1>>}
        \cup {<<m>> : m \in AccountMsgs}
        \cup {<<m, n>> : m \in AccountMsgs, n \in AccountMsgs}

VARIABLES
    accMsgs,      \* each account's listed messages
    accpc,        \* each account's goroutine: "run", "lock", "crit", "done", "failed"
    amainpc,      \* processAccountsInParallel: "wait", "report"
    amu,          \* its mutex: 0 when free, else the account holding it
    allOrders,    \* the combined ledger
    allShipped,   \* the combined shipped list
    totalEmails,  \* the combined message count
    amerged       \* the accounts in the order of their merges

avars == <<accMsgs, accpc, amainpc, amu, allOrders, allShipped, totalEmails, amerged>>

\* No accounts are being scanned.
AIdle ==
    /\ accMsgs = << >>
    /\ accpc = << >>
    /\ amainpc = "none"
    /\ amu = 0
    /\ allOrders = EmptyLedger
    /\ allShipped = << >>
    /\ totalEmails = 0
    /\ amerged = << >>

\* processAccountsInParallel has started a goroutine per account.
AInit ==
    /\ accMsgs \in [Accounts -> AccountMailboxes]
    /\ accpc = [a \in Accounts |-> "run"]
    /\ amainpc = "wait"
    /\ amu = 0
    /\ allOrders = EmptyLedger
    /\ allShipped = << >>
    /\ totalEmails = 0
    /\ amerged = << >>

\* The service, the profile or the listing of the account fails: the
\* goroutine logs it and returns.
AccountFails(a) ==
    /\ accpc[a] = "run"
    /\ accpc' = [accpc EXCEPT ![a] = "failed"]
    /\ UNCHANGED <<accMsgs, amainpc, amu, allOrders, allShipped, totalEmails, amerged>>

\* gmail.ProcessEmails has returned the account's ledger.
AccountProcessed(a) ==
    /\ accpc[a] = "run"
    /\ accpc' = [accpc EXCEPT ![a] = "lock"]
    /\ UNCHANGED <<accMsgs, amainpc, amu, allOrders, allShipped, totalEmails, amerged>>

\* mu.Lock()
AccountLock(a) ==
    /\ accpc[a] = "lock"
    /\ amu = 0
    /\ amu' = a
    /\ accpc' = [accpc EXCEPT ![a] = "crit"]
    /\ UNCHANGED <<accMsgs, amainpc, allOrders, allShipped, totalEmails, amerged>>

\* mergeOrders(allOrders, orders); allShipped = append(allShipped, shipped...);
\* totalEmails += len(messages); mu.Unlock()
AccountMerge(a) ==
    /\ accpc[a] = "crit"
    /\ amu = a
    /\ allOrders' = mergeOrders(allOrders, ScanLedger(accMsgs[a])[1])
    /\ allShipped' = allShipped \o ScanLedger(accMsgs[a])[2]
    /\ totalEmails' = totalEmails + Len(accMsgs[a])
    /\ amu' = 0
    /\ accpc' = [accpc EXCEPT ![a] = "done"]
    /\ amerged' = Append(amerged, a)
    /\ UNCHANGED <<accMsgs, amainpc>>

\* wg.Wait() returns: the combined report is generated.
AccountsWait ==
    /\ amainpc = "wait"
    /\ \A a \in Accounts : accpc[a] \in {"done", "failed"}
    /\ amainpc' = "report"
    /\ UNCHANGED <<accMsgs, accpc, amu, allOrders, allShipped, totalEmails, amerged>>

\* ------------------------------------------------------ the specifications
vars == <<pvars, svars, cvars, rvars, kvars, jvars, avars>>

\* No scan request is being served (the command-line pipeline runs alone).
SIdle ==
    /\ idle = 0
    /\ activeScan = NoScan
    /\ hpc = [r \in Reqs |-> "none"]
    /\ rpc = [r \in Reqs |-> "none"]
    /\ wdpc = [r \in Reqs |-> "none"]
    /\ wdDue = [r \in Reqs |-> FALSE]
    /\ cancelled = [r \in Reqs |-> FALSE]
    /\ total = [r \in Reqs |-> 0]
    /\ pdone = [r \in Reqs |-> 0]
    /\ pendingCb = [r \in Reqs |-> {}]
    /\ outcome = [r \in Reqs |-> "none"]
    /\ cbSame = FALSE

\* ProcessEmails has not been called.
PIdle ==
    /\ allMessages = << >>
    /\ sent = 0
    /\ jobs = << >>
    /\ closed = FALSE
    /\ mainpc = "none"
    /\ wpc = [w \in Workers |-> "none"]
    /\ wjob = [w \in Workers |-> 0]
    /\ mu = 0
    /\ orders = EmptyLedger
    /\ shipped = << >>
    /\ shippedIDs = {}
    /\ bar = 0
    /\ upstream = [m \in MsgIds |-> "none"]
    /\ applied = << >>

Init == PInit /\ SIdle /\ CIdle /\ RIdle /\ KIdle /\ JIdle /\ AIdle

Next ==
    \/ Send /\ UNCHANGED <<svars, cvars, rvars, kvars, jvars, avars>>
    \/ Close /\ UNCHANGED <<svars, cvars, rvars, kvars, jvars, avars>>
    \/ Return /\ UNCHANGED <<svars, cvars, rvars, kvars, jvars, avars>>
    \/ \E w \in Workers : Recv(w) /\ UNCHANGED <<svars, cvars, rvars, kvars, jvars, avars>>
    \/ \E w \in Workers : Exit(w) /\ UNCHANGED <<svars, cvars, rvars, kvars, jvars, avars>>
    \/ \E w \in Workers : Fetch(w) /\ UNCHANGED <<svars, cvars, rvars, kvars, jvars, avars>>
    \/ \E w \in Workers : Lock(w) /\ UNCHANGED <<svars, cvars, rvars, kvars, jvars, avars>>
    \/ \E w \in Workers : Crit(w) /\ UNCHANGED <<svars, cvars, rvars, kvars, jvars, avars>>

\* ProcessEmails on a mailbox of MaxMsgs messages.
Spec == Init /\ [][Next]_vars

ScanInit == SInit /\ PIdle /\ CIdle /\ RIdle /\ KIdle /\ JIdle /\ AIdle

ScanNext ==
    \/ \E r \in Reqs : HandleScanCheck(r) /\ UNCHANGED <<pvars, cvars, rvars, kvars, jvars, avars>>
    \/ \E r \in Reqs : HandleScanBadRequest(r) /\ UNCHANGED <<pvars, cvars, rvars, kvars, jvars, avars>>
    \/ \E r \in Reqs : HandleScanInstall(r) /\ UNCHANGED <<pvars, cvars, rvars, kvars, jvars, avars>>
    \/ \E k \in Reqs : WatchProgress(k) /\ UNCHANGED <<pvars, cvars, rvars, kvars, jvars, avars>>
    \/ Tick /\ UNCHANGED <<pvars, cvars, rvars, kvars, jvars, avars>>
    \/ \E k \in Reqs : RunScanListFails(k) /\ UNCHANGED <<pvars, cvars, rvars, kvars, jvars, avars>>
    \/ \E k \in Reqs : RunScanListed(k) /\ UNCHANGED <<pvars, cvars, rvars, kvars, jvars, avars>>
    \/ \E k \in Reqs : PipelineJob(k) /\ UNCHANGED <<pvars, cvars, rvars, kvars, jvars, avars>>
    \/ \E k \in Reqs : ProgressCallback(k) /\ UNCHANGED <<pvars, cvars, rvars, kvars, jvars, avars>>
    \/ \E k \in Reqs : RunScanFailed(k) /\ UNCHANGED <<pvars, cvars, rvars, kvars, jvars, avars>>
    \/ \E k \in Reqs : RunScanSucceeded(k) /\ UNCHANGED <<pvars, cvars, rvars, kvars, jvars, avars>>
    \/ \E k \in Reqs : RunScanDeferred(k) /\ UNCHANGED <<pvars, cvars, rvars, kvars, jvars, avars>>

\* Concurrent start-scan requests against the web server.
SpecScan == ScanInit /\ [][ScanNext]_vars

CacheInit == CInit /\ PIdle /\ SIdle /\ RIdle /\ KIdle /\ JIdle /\ AIdle

CacheNext ==
    \/ \E k \in CacheKeys : GetCall(k) /\ UNCHANGED <<pvars, svars, rvars, kvars, jvars, avars>>
    \/ \E w \in Workers, k \in CacheKeys : SetMarshal(w, k) /\ UNCHANGED <<pvars, svars, rvars, kvars, jvars, avars>>
    \/ \E w \in Workers : SetExec(w) /\ UNCHANGED <<pvars, svars, rvars, kvars, jvars, avars>>
    \/ Clear /\ UNCHANGED <<pvars, svars, rvars, kvars, jvars, avars>>
    \/ periodicCleanup /\ UNCHANGED <<pvars, svars, rvars, kvars, jvars, avars>>
    \/ ClockTick /\ UNCHANGED <<pvars, svars, rvars, kvars, jvars, avars>>

\* Workers and handlers using one MessageCache while time passes.
SpecCache == CacheInit /\ [][CacheNext]_vars

\* Start-scan requests that reach the server one after another: a handler
\* starts when the handlers before it have answered.
HandleScanCheckNext(r) ==
    /\ \A q \in Reqs : q < r => hpc[q] \notin {"check", "install"}
    /\ HandleScanCheck(r)

ScanNextSerial ==
    \/ \E r \in Reqs : HandleScanCheckNext(r) /\ UNCHANGED <<pvars, cvars, rvars, kvars, jvars, avars>>
    \/ \E r \in Reqs : HandleScanBadRequest(r) /\ UNCHANGED <<pvars, cvars, rvars, kvars, jvars, avars>>
    \/ \E r \in Reqs : HandleScanInstall(r) /\ UNCHANGED <<pvars, cvars, rvars, kvars, jvars, avars>>
    \/ \E k \in Reqs : WatchProgress(k) /\ UNCHANGED <<pvars, cvars, rvars, kvars, jvars, avars>>
    \/ Tick /\ UNCHANGED <<pvars, cvars, rvars, kvars, jvars, avars>>
    \/ \E k \in Reqs : RunScanListFails(k) /\ UNCHANGED <<pvars, cvars, rvars, kvars, jvars, avars>>
    \/ \E k \in Reqs : RunScanListed(k) /\ UNCHANGED <<pvars, cvars, rvars, kvars, jvars, avars>>
    \/ \E k \in Reqs : PipelineJob(k) /\ UNCHANGED <<pvars, cvars, rvars, kvars, jvars, avars>>
    \/ \E k \in Reqs : ProgressCallback(k) /\ UNCHANGED <<pvars, cvars, rvars, kvars, jvars, avars>>
    \/ \E k \in Reqs : RunScanFailed(k) /\ UNCHANGED <<pvars, cvars, rvars, kvars, jvars, avars>>
    \/ \E k \in Reqs : RunScanSucceeded(k) /\ UNCHANGED <<pvars, cvars, rvars, kvars, jvars, avars>>
    \/ \E k \in Reqs : RunScanDeferred(k) /\ UNCHANGED <<pvars, cvars, rvars, kvars, jvars, avars>>

SpecScanSerial == ScanInit /\ [][ScanNextSerial]_vars

\* The state of everything but the web scan.
restOfScan == <<pvars, cvars, rvars, kvars, jvars, avars>>

\* The scheduling of a scan: the handlers, the tickers and their watchdogs,
\* the callbacks, the return of a pipeline whose workers are done and the
\* deferred completion all run when they can; an upstream call (the listing,
\* the fetch of a job's message) may never return.
ScanFairness ==
    /\ WF_vars(Tick /\ UNCHANGED restOfScan)
    /\ \A k \in Reqs :
          /\ WF_vars(HandleScanCheckNext(k) /\ UNCHANGED restOfScan)
          /\ WF_vars(WatchProgress(k) /\ UNCHANGED restOfScan)
          /\ WF_vars(ProgressCallback(k) /\ UNCHANGED restOfScan)
          /\ WF_vars(RunScanFailed(k) /\ UNCHANGED restOfScan)
          /\ WF_vars(RunScanSucceeded(k) /\ UNCHANGED restOfScan)
          /\ WF_vars(RunScanDeferred(k) /\ UNCHANGED restOfScan)

\* Start-scan requests served one after another under that scheduling.
SpecScanLive == ScanInit /\ [][ScanNextSerial]_vars /\ ScanFairness

RequeueInit == QInit /\ SIdle /\ CIdle /\ RIdle /\ KIdle /\ JIdle /\ AIdle

RequeueNext ==
    \/ ~Crashed /\ RequeueSend /\ UNCHANGED <<svars, cvars, rvars, kvars, jvars, avars>>
    \/ ~Crashed /\ Close /\ UNCHANGED <<svars, cvars, rvars, kvars, jvars, avars>>
    \/ ~Crashed /\ Return /\ UNCHANGED <<svars, cvars, rvars, kvars, jvars, avars>>
    \/ \E w \in Workers : ~Crashed /\ Recv(w) /\ UNCHANGED <<svars, cvars, rvars, kvars, jvars, avars>>
    \/ \E w \in Workers : ~Crashed /\ Exit(w) /\ UNCHANGED <<svars, cvars, rvars, kvars, jvars, avars>>
    \/ \E w \in Workers : ~Crashed /\ RequeueFetch(w) /\ UNCHANGED <<svars, cvars, rvars, kvars, jvars, avars>>
    \/ \E w \in Workers : ~Crashed /\ RequeuePush(w) /\ UNCHANGED <<svars, cvars, rvars, kvars, jvars, avars>>
    \/ \E w \in Workers : ~Crashed /\ Lock(w) /\ UNCHANGED <<svars, cvars, rvars, kvars, jvars, avars>>
    \/ \E w \in Workers : ~Crashed /\ RequeueCrit(w) /\ UNCHANGED <<svars, cvars, rvars, kvars, jvars, avars>>

\* The requeue variant of ProcessEmails with every goroutine that can run
\* eventually running.
SpecRequeue == RequeueInit /\ [][RequeueNext]_vars /\ WF_vars(RequeueNext)

\* Most messages of a mailbox that overfills the job queue.
MaxDrainMsgs == 5

\* The messages of such a mailbox: one that is merged, one that is skipped.
DrainMsgs == {ConfirmA, ConfirmNoID}

\* ProcessEmails is called with up to MaxDrainMsgs messages of one kind.
DrainInit ==
    /\ \E n \in 0..MaxDrainMsgs, msg \in DrainMsgs :
         /\ allMessages = [i \in 1..n |-> msg]
         /\ upstream = [m \in 1..n |-> "none"]
    /\ sent = 0
    /\ jobs = << >>
    /\ closed = FALSE
    /\ mainpc = "send"
    /\ wpc = [w \in Workers |-> "recv"]
    /\ wjob = [w \in Workers |-> 0]
    /\ mu = 0
    /\ orders = EmptyLedger
    /\ shipped = << >>
    /\ shippedIDs = {}
    /\ bar = 0
    /\ applied = << >>
    /\ SIdle /\ CIdle /\ RIdle /\ KIdle /\ JIdle /\ AIdle

\* ProcessEmails with every goroutine that can run eventually running.
SpecDrain == DrainInit /\ [][Next]_vars /\ WF_vars(Next)

ReportInit == RInit /\ SIdle /\ CIdle /\ KIdle /\ JIdle /\ AIdle

ReportNext == HandleReportLiveOrders /\ UNCHANGED <<svars, cvars, kvars, jvars, avars>>

\* Reports asked for after a scan has stored its result.
SpecReport == ReportInit /\ [][ReportNext]_vars

ClassifyInit == KInit /\ PIdle /\ SIdle /\ CIdle /\ RIdle /\ JIdle /\ AIdle

ClassifyNext == SubjectSwitch /\ UNCHANGED <<pvars, svars, cvars, rvars, jvars, avars>>

\* The subject switch over the subjects of up to MaxSubjectLen tokens.
SpecClassify == ClassifyInit /\ [][ClassifyNext]_vars

\* A worker starts on the jobs of a scan, some time after an earlier scan.
JInit ==
    /\ todo \in JobLists
    /\ jpc = "check"
    /\ jres = NoResult
    /\ jhow = NoHow
    /\ jlog = << >>
    /\ rows \in StoredTables
    /\ clock \in 0..MaxClock
    /\ cpc = << >>
    /\ cset = << >>
    /\ answer = NoGet
    /\ lastSet = << >>
    /\ PIdle

JobInit == JInit /\ SIdle /\ RIdle /\ KIdle /\ AIdle

JobNext ==
    \/ JobCheck /\ UNCHANGED <<svars, rvars, kvars, avars>>
    \/ JobFetch /\ UNCHANGED <<svars, rvars, kvars, avars>>
    \/ JobStore /\ UNCHANGED <<svars, rvars, kvars, avars>>
    \/ JobMerge /\ UNCHANGED <<svars, rvars, kvars, avars>>
    \/ JobClockTick /\ UNCHANGED <<svars, rvars, kvars, avars>>

\* One pipeline worker running its jobs against the cache.
SpecJob == JobInit /\ [][JobNext]_vars

AccountsInit == AInit /\ PIdle /\ SIdle /\ CIdle /\ RIdle /\ KIdle /\ JIdle

AccountsNext ==
    \/ \E a \in Accounts : AccountFails(a) /\ UNCHANGED <<pvars, svars, cvars, rvars, kvars, jvars>>
    \/ \E a \in Accounts : AccountProcessed(a) /\ UNCHANGED <<pvars, svars, cvars, rvars, kvars, jvars>>
    \/ \E a \in Accounts : AccountLock(a) /\ UNCHANGED <<pvars, svars, cvars, rvars, kvars, jvars>>
    \/ \E a \in Accounts : AccountMerge(a) /\ UNCHANGED <<pvars, svars, cvars, rvars, kvars, jvars>>
    \/ AccountsWait /\ UNCHANGED <<pvars, svars, cvars, rvars, kvars, jvars>>

\* The accounts of a multi-account run, completing in any order.
SpecAccounts == AccountsInit /\ [][AccountsNext]_vars

\* ============================================================ properties
\* The jobs whose critical section has run.
AppliedSet == {applied[i] : i \in 1..Len(applied)}

KindOf(m) == Classify(allMessages[m].subject)

\* The delta a confirmation or pre-order message yields.
Delta(m) == extractOrderInfo(allMessages[m].doc, allMessages[m].subject)

IsConfirmation(m) ==
    KindOf(m) = "OrderConfirmation" /\ NeedsLock(allMessages[m])

IsCancellation(m) ==
    \/ KindOf(m) = "Canceled" /\ SplitLen(allMessages[m].subject, "#") > 1
    \/ /\ KindOf(m) = "PaymentFailureCanceled"
       /\ allMessages[m].doc.found
       /\ allMessages[m].doc.anchor # << >>

\* The order number a cancellation message carries, as written in the message.
CancelNumber(m) ==
    IF KindOf(m) = "Canceled" THEN SplitPart1(allMessages[m].subject, "#")
    ELSE allMessages[m].doc.anchor

\* The ledger key a cancellation message writes.
CancelKey(m) ==
    IF KindOf(m) = "Canceled" THEN CancelNumber(m)
    ELSE ReplaceAll(CancelNumber(m), "-")

\* An order number without its hyphens: two spellings of one order number
\* have the same digits.
Digits(id) == ReplaceAll(id, "-")

\* ---- C1
\* C1: at most one scan is in flight: there is never a state in which two
\* runScan goroutines have started and neither has finished.
C1_SingleScanInFlight ==
    Cardinality({k \in Reqs : rpc[k] \in {"list", "process", "defer"}}) <= 1

\* ---- C2
\* C2: cancellation is sticky: an order whose status is canceled stays in the
\* ledger with status canceled in every step, whatever is merged later.
C2_CancelSticky ==
    [][\A id \in DOMAIN orders :
          orders[id].Status = "canceled"
              => id \in DOMAIN orders' /\ orders'[id].Status = "canceled"]_vars

\* A cancellation was applied, a confirmation for the same key was merged after
\* it, and the entry is still canceled.
C2_Witness ==
    \E i, j \in 1..Len(applied) :
        /\ i < j
        /\ IsCancellation(applied[i])
        /\ IsConfirmation(applied[j])
        /\ CancelKey(applied[i]) = Delta(applied[j]).ID
        /\ Delta(applied[j]).Status # "canceled"
        /\ orders[Delta(applied[j]).ID].Status = "canceled"

\* ---- C3
\* C3: when a cancellation and a confirmation that carry the same order number
\* have both been applied, in either order, the returned ledger holds exactly
\* one entry for that order number and its status is canceled.
C3_OneCanceledEntry ==
    mainpc = "returned" =>
        \A c, m \in AppliedSet :
            (/\ IsCancellation(c)
             /\ IsConfirmation(m)
             /\ Digits(CancelNumber(c)) = Delta(m).ID)
            => LET entries == {id \in DOMAIN orders : Digits(id) = Delta(m).ID}
               IN  /\ Cardinality(entries) = 1
                   /\ \A id \in entries : orders[id].Status = "canceled"

\* ---- C4
\* C4: when the watchdog has stopped a stalled scan and the pipeline has
\* returned after merging some orders (and no other scan was started), the
\* scan has inProgress=false, carries the timeout error, and the orders its
\* pipeline had merged before the stall are readable through the report.
C4_StallKeepsOrders ==
    \A k \in Reqs :
        (/\ cancelled[k]
         /\ rpc[k] = "defer"
         /\ pdone[k] > 0
         /\ \A j \in Reqs \ {k} : rpc[j] = "none")
        => /\ ~activeScan.InProgress
           /\ activeScan.Error = TimeoutError
           /\ HandleReport(activeScan).status = 200
           /\ pOrders(k) \subseteq HandleReport(activeScan).orders

\* ---- C5
\* C5: field completeness does not depend on arrival order: once a
\* confirmation carrying a non-empty total (order date) has been merged, the
\* returned ledger's entry for its order has a non-empty total (order date),
\* whether or not the entry existed before.
C5_FieldsFilledIn ==
    mainpc = "returned" =>
        \A m \in AppliedSet :
            IsConfirmation(m) =>
                /\ Delta(m).Total # "" => orders[Delta(m).ID].Total # ""
                /\ Delta(m).OrderDate # "" => orders[Delta(m).ID].OrderDate # ""

\* ---- C6
\* A field that is known in before has the same value in after.
FirstKnownKept(before, after) ==
    \A id \in DOMAIN before :
        /\ id \in DOMAIN after
        /\ before[id].Total # "" => after[id].Total = before[id].Total
        /\ before[id].OrderDate # "" => after[id].OrderDate = before[id].OrderDate
        /\ before[id].Items # << >> => after[id].Items = before[id].Items

\* The deltas the catalogue's confirmation and pre-order messages yield.
Deltas ==
    {extractOrderInfo(msg.doc, msg.subject) :
        msg \in {c \in Catalogue : /\ Classify(c.subject) = "OrderConfirmation"
                                   /\ NeedsLock(c)}}

\* Ledgers of another account: one entry each.
SampleLedgers ==
    {Put(EmptyLedger, d) : d \in Deltas \cup {CanceledOrder(Digits(OrderA))}}

\* C6: first known value wins: no step of the pipeline, and no merge of
\* another account's ledger into a reachable ledger, changes an order's
\* total, order date or items once the field is non-empty.
C6_FirstKnownValueWins ==
    /\ [][FirstKnownKept(orders, orders')]_vars
    /\ [](\A src \in SampleLedgers : FirstKnownKept(orders, mergeOrders(orders, src)))

\* Two confirmations with different non-empty items and totals were merged
\* for one order, and the entry has the first one's values.
C6_Witness ==
    \E i, j \in 1..Len(applied) :
        /\ i < j
        /\ IsConfirmation(applied[i]) /\ IsConfirmation(applied[j])
        /\ Delta(applied[i]).ID = Delta(applied[j]).ID
        /\ Delta(applied[i]).Items # << >> /\ Delta(applied[j]).Items # << >>
        /\ Delta(applied[i]).Items # Delta(applied[j]).Items
        /\ Delta(applied[i]).Total # Delta(applied[j]).Total
        /\ orders[Delta(applied[i]).ID].Items = Delta(applied[i]).Items
        /\ orders[Delta(applied[i]).ID].Total = Delta(applied[i]).Total

\* ---- C7
\* C7: merging is idempotent: for every reachable ledger and every delta,
\* merging the delta twice gives the ledger that merging it once gives.
C7_MergeIdempotent ==
    \A d \in Deltas :
        mergeOrCreateOrder(mergeOrCreateOrder(orders, d), d)
            = mergeOrCreateOrder(orders, d)

\* A ledger that already holds an order with items, for which a delta with
\* other items exists.
C7_Witness ==
    \E d \in Deltas :
        /\ d.ID \in DOMAIN orders
        /\ orders[d.ID].Items # << >>
        /\ d.Items # << >>
        /\ d.Items # orders[d.ID].Items

\* ---- C8
IsPrefix(s, t) == Len(s) <= Len(t) /\ SubSeq(t, 1, Len(s)) = s

\* The placeholder a delivery notice appends carries no tracking number.
IsDeliveredMarker(rec) == rec.TrackingNumber = <<"DELIVERED">>

NoDuplicateTracking(list) ==
    \A i, j \in 1..Len(list) :
        (i # j /\ list[i].TrackingNumber = list[j].TrackingNumber)
            => IsDeliveredMarker(list[i])

\* C8: shipments are deduplicated: in every step the shipped list only grows
\* at its end, its earlier records unchanged, and it never holds two shipment
\* records with the same tracking number (the placeholders of delivery
\* notices, which carry no tracking number, are not shipment records).
C8_ShipmentDedup ==
    [][IsPrefix(shipped, shipped') /\ NoDuplicateTracking(shipped')]_vars

\* Two shipped messages that share a tracking number were both applied.
C8_Witness ==
    \E i, j \in 1..Len(applied) :
        /\ i < j
        /\ KindOf(applied[i]) = "Shipped" /\ KindOf(applied[j]) = "Shipped"
        /\ \E a \in 1..Len(processShippedEmail(allMessages[applied[i]])),
              b \in 1..Len(processShippedEmail(allMessages[applied[j]])) :
                processShippedEmail(allMessages[applied[i]])[a].TrackingNumber
                  = processShippedEmail(allMessages[applied[j]])[b].TrackingNumber
        /\ Len(shipped) > 0

\* ---- C9
\* What message m leaves in the result once it has been applied.
Contributed(m) ==
    LET msg == allMessages[m]
        kind == KindOf(m)
    IN  CASE kind \in {"Canceled", "PaymentFailureCanceled"} ->
               IsCancellation(m) =>
                   /\ CancelKey(m) \in DOMAIN orders
                   /\ orders[CancelKey(m)].Status = "canceled"
          [] kind = "Shipped" ->
               \A i \in 1..Len(processShippedEmail(msg)) :
                   processShippedEmail(msg)[i].TrackingNumber \in shippedIDs
          [] kind = "Arrived" ->
               /\ processDeliveredEmail(msg) \in shippedIDs
               /\ \E i \in 1..Len(shipped) :
                     \/ shipped[i].ID = processDeliveredEmail(msg)
                     \/ shipped[i].TrackingNumber = processDeliveredEmail(msg)
          [] OTHER -> Delta(m).ID \in DOMAIN orders

\* A worker holds message m between its fetch and its critical section.
InFlight(m) == \E w \in Workers : wjob[w] = m /\ wpc[w] \in {"lock", "crit"}

\* C9: no message is lost to transient failures within the retry budget:
\* getMessage succeeds when fewer than maxAttempts transient errors precede a
\* success, and a message fetched that way is merged exactly as one whose
\* first fetch succeeded: it is on its way to the critical section or it has
\* been applied and its data is in the result.
C9_NoLossWithinBudget ==
    /\ \A k \in 0..(maxAttempts - 1) :
          LET got == getMessage(TransientRun(k) \o Repeat("ok", maxAttempts + 1 - k))
          IN  got.ok /\ got.calls = k + 1
    /\ \A m \in DOMAIN allMessages :
          (upstream[m] \in {"ok", "retried"} /\ NeedsLock(allMessages[m]))
              => \/ InFlight(m)
                 \/ m \in AppliedSet /\ Contributed(m)

\* A message whose fetch failed transiently and then succeeded was applied.
C9_Witness ==
    \E m \in DOMAIN allMessages :
        /\ upstream[m] = "retried"
        /\ NeedsLock(allMessages[m])
        /\ m \in AppliedSet
        /\ Contributed(m)

\* ---- C10
Abandoned(m) == upstream[m] \in {"permanent", "exhausted"}

C11_PartialResultsStored ==
    \A k \in Reqs :
        (/\ outcome[k] = "pipeline error"
         /\ rpc[k] = "defer"
         /\ pdone[k] > 0
         /\ ~activeScan.InProgress
         /\ \A j \in Reqs \ {k} : rpc[j] = "none")
        => /\ activeScan.HasOrders
           /\ pOrders(k) \subseteq activeScan.Orders

\* ---- C12
\* C12: a stall timeout stays the terminal error: once the scan's error is the
\* timeout message, no step of that scan's pipeline phase (no other scan
\* being started) replaces it.
C12_TimeoutErrorKept ==
    [][\A k \in Reqs :
          (/\ activeScan.owner = k
           /\ activeScan.Error = TimeoutError
           /\ rpc[k] = "process"
           /\ \A j \in Reqs \ {k} : rpc[j] = "none" /\ rpc'[j] = "none")
          => activeScan'.Error = TimeoutError]_vars

\* ---- C13
\* C13: a listing failure is fatal: when runScan has ended after a failed
\* listing (no other scan being started), the scan has inProgress=false, its
\* error is the listing error, nothing was processed and no orders are
\* published.
C13_ListFailureFatal ==
    \A k \in Reqs :
        (/\ outcome[k] = "list error"
         /\ rpc[k] = "done"
         /\ \A j \in Reqs \ {k} : rpc[j] = "none")
        => /\ ~activeScan.InProgress
           /\ activeScan.Error = ListError
           /\ activeScan.Processed = 0
           /\ activeScan.TotalMessages = 0
           /\ ~activeScan.HasOrders
           /\ HandleReport(activeScan).status = 404

\* ---- C14
Running == activeScan.set /\ activeScan.InProgress

\* C14: a start-scan request whose check finds a scan running is answered
\* 409 in that step and the step changes nothing else; a request answered
\* 409 never installs a scan, never starts a watchdog or a pipeline.
C14_ConflictLeavesScanAlone ==
    /\ [][\A r \in Reqs :
            (hpc[r] = "check" /\ hpc'[r] # "check" /\ Running)
            => /\ hpc'[r] = "409 Conflict"
               /\ UNCHANGED <<idle, activeScan, rpc, wdpc, wdDue, cancelled,
                              total, pdone, pendingCb, outcome>>]_vars
    /\ [](\A r \in Reqs :
            hpc[r] = "409 Conflict"
            => /\ rpc[r] = "none"
               /\ wdpc[r] = "none"
               /\ ~cancelled[r]
               /\ activeScan.owner # r)

\* A request was answered 409 while another request's scan is running.
C14_Witness ==
    \E r \in Reqs :
        /\ hpc[r] = "409 Conflict"
        /\ Running
        /\ activeScan.owner # r
        /\ rpc[activeScan.owner] \in {"list", "process"}

\* ---- C15
\* The result stored by the Set executed last on key k.
SetValue(k) == SampleResult(lastSet[k].by)

\* Clock readings since the Set executed last on key k took its timestamp.
Age(k) == clock - lastSet[k].at

\* C15: cache round trip: a Get of a key whose last Set (no Clear since) is
\* younger than the TTL answers found, with a result equal to the one stored.
C15_RoundTrip ==
    \A k \in DOMAIN lastSet :
        (/\ answer.returned
         /\ answer.msgID = k
         /\ lastSet[k].done
         /\ Age(k) < CacheTTL * TicksPerSecond)
        => /\ answer.found
           /\ answer.result = Ptr(SetValue(k))

\* ---- C16
\* C16: expiry is lazy: a Get of a key whose last Set is older than the TTL
\* answers not found, and a Get changes no row: the table and what Stats
\* counts are the same after it.
C16_LazyExpiry ==
    /\ [](\A k \in DOMAIN lastSet :
            (/\ answer.returned
             /\ answer.msgID = k
             /\ lastSet[k].done
             /\ Age(k) > CacheTTL * TicksPerSecond)
            => ~answer.found)
    /\ [][answer'.returned /\ answer' # answer
            => rows' = rows /\ Stats(rows') = Stats(rows)]_vars

\* A Get has just answered not found for a key whose row, older than the
\* TTL, is still in the table and counted.
C16_Witness ==
    /\ answer.returned
    /\ ~answer.found
    /\ answer.msgID \in DOMAIN rows
    /\ rows[answer.msgID].present
    /\ lastSet[answer.msgID].done
    /\ Age(answer.msgID) > CacheTTL * TicksPerSecond
    /\ Stats(rows).total >= 1

\* ---- C17
\* C17: an entry is expired exactly when now - createdAt > TTL, in whole
\* seconds: a Get of a key that has a row answers found exactly when the
\* row's age is at most the TTL.
C17_ExpiredAfterTTL ==
    \A k \in DOMAIN rows :
        (answer.returned /\ answer.msgID = k /\ rows[k].present)
        => (answer.found <=> ~(Unix(clock) - rows[k].created_at > CacheTTL))

\* ---- C18
\* C18: Set is a last-write-wins upsert per key: every row holds the result
\* and the timestamp of the Set executed last on its key, a Set whose
\* timestamp is within the TTL is not lost, and a Get then finds its result,
\* also when the key held an expired row before.
C18_LastWriteWins ==
    /\ \A k \in DOMAIN rows :
          rows[k].present
          => /\ lastSet[k].done
             /\ jsonUnmarshal(rows[k].result_data) = SetValue(k)
             /\ rows[k].created_at = Unix(lastSet[k].at)
    /\ \A k \in DOMAIN lastSet :
          (lastSet[k].done /\ Unix(clock) - Unix(lastSet[k].at) < CacheTTL)
          => /\ rows[k].present
             /\ (answer.returned /\ answer.msgID = k)
                => answer.found /\ answer.result = Ptr(SetValue(k))

\* Two workers have executed their Sets on the same key and a Get has just
\* found the result of the one executed last.
C18_Witness ==
    \E w1, w2 \in DOMAIN cpc :
        /\ w1 # w2
        /\ cpc[w1] = "done" /\ cpc[w2] = "done"
        /\ cset[w1].msgID = cset[w2].msgID
        /\ lastSet[cset[w2].msgID].by = w2
        /\ answer.returned
        /\ answer.msgID = cset[w2].msgID
        /\ answer.found
        /\ answer.result = Ptr(SampleResult(w2))

\* ---- C19
\* The canonical form of an order ID: no hyphen in it.
Canonical(id) == ~Contains(id, "-")

\* C19: every key of the ledger is an order ID in canonical form, whatever
\* kind of message created the entry, so that the messages about one upstream
\* order number address one entry.
C19_CanonicalKeys ==
    \A id \in DOMAIN orders : Canonical(id) /\ orders[id].ID = id

\* ---- C20
\* The delivered markers of the shipped list.
Markers == {i \in 1..Len(shipped) : IsDeliveredMarker(shipped[i])}

\* C20: delivered markers are deduplicated by order ID: the shipped list holds
\* at most one marker per order ID, and every applied Arrived:/Delivered:
\* message that names an order has its marker in the list, whatever tracking
\* numbers were recorded before it.
C20_DeliveredMarkerPerOrder ==
    /\ \A i, j \in Markers : shipped[i].ID = shipped[j].ID => i = j
    /\ \A m \in AppliedSet :
          KindOf(m) = "Arrived"
              => \E i \in Markers : shipped[i].ID = processDeliveredEmail(allMessages[m])

\* ---- C21
\* The IDs of the shipped list, shipment records and delivered markers alike.
ShippedOrderIDs == {shipped[i].ID : i \in 1..Len(shipped)}

\* The orders of the ledger that are neither canceled nor shipped.
LiveSet ==
    {orders[id] : id \in {k \in DOMAIN orders :
                            /\ orders[k].Status # "canceled"
                            /\ k \notin ShippedOrderIDs}}

\* C21: the live view of a report holds exactly the orders that are not
\* canceled and whose ID is on no shipped record or delivered marker, each of
\* them once, in whatever order the map was visited.
C21_LiveView ==
    live.called =>
        /\ {live.orders[i] : i \in 1..Len(live.orders)} = LiveSet
        /\ Len(live.orders) = Cardinality(LiveSet)
        /\ \A i \in 1..Len(live.orders) :
              /\ live.orders[i].Status # "canceled"
              /\ live.orders[i].ID \notin ShippedOrderIDs

\* A report over a ledger with a canceled order and with an open order that
\* has a delivered marker or a shipment record.
C21_Witness ==
    /\ live.called
    /\ \E id \in DOMAIN orders : orders[id].Status = "canceled"
    /\ \E id \in DOMAIN orders :
          /\ orders[id].Status # "canceled"
          /\ \E i \in 1..Len(shipped) : shipped[i].ID = id /\ IsDeliveredMarker(shipped[i])

\* ---- C22
\* The handling paths in their fixed order, and the test of each.
Paths == <<"Canceled", "PaymentFailureCanceled", "Shipped", "Arrived",
           "OrderConfirmation">>

PathHolds(i, subject) ==
    CASE i = 1 -> Contains(subject, "Canceled:")
      [] i = 2 -> HasSuffix(subject, PayFailSuffix)
      [] i = 3 -> Contains(subject, "Shipped:")
      [] i = 4 -> HasPrefix(subject, "Arrived:") \/ HasPrefix(subject, "Delivered:")
      [] OTHER -> TRUE

\* C22: classification is first-match-wins: the one path a subject is
\* dispatched to is the first of Canceled, PaymentFailureCanceled, Shipped,
\* Arrived, OrderConfirmation whose test holds of the subject.
C22_FirstMatchWins ==
    path # "none" =>
        \E i \in 1..Len(Paths) :
            /\ path = Paths[i]
            /\ PathHolds(i, subj)
            /\ \A j \in 1..(i - 1) : ~PathHolds(j, subj)

\* A subject that passes the tests of two cases was dispatched to the first.
C22_Witness ==
    /\ path = "PaymentFailureCanceled"
    /\ PathHolds(3, subj)
    /\ PathHolds(4, subj)

\* ---- C23
\* The step is a pass of watchdog k through its ticker loop.
WatchdogPass(k) == wdpc[k] = "ticking" /\ wdDue[k] /\ ~wdDue'[k]

\* The pipeline of scan k has completed without its watchdog's timeout and
\* runScan has run its deferred completion.
CompletedUntimed(k) == rpc[k] = "done" /\ ~cancelled[k]

\* C23: when runScan's deferred completion has run the scan is not in
\* progress, and the next pass of the watchdog started for a scan that has
\* completed without a timeout exits, leaving the error alone and calling no
\* cancel.
C23_WatchdogExitsAfterCompletion ==
    [][\A k \in Reqs :
          /\ (rpc[k] = "defer" /\ rpc'[k] = "done") => ~activeScan'.InProgress
          /\ (CompletedUntimed(k) /\ WatchdogPass(k))
                => /\ wdpc'[k] = "exited"
                   /\ activeScan'.Error = activeScan.Error
                   /\ cancelled' = cancelled]_vars

\* ---- C24
\* The counts that pipeline k's progress callback reports in the step.
Reported(k) == pendingCb[k] \ pendingCb'[k]

\* C24: lastProgressUpdate follows the progress: the start of a scan sets it
\* to the start time, a progress callback whose count differs from the
\* recorded one records the count and sets it to the current time, and a
\* callback whose count is the recorded one leaves the scan and it unchanged.
C24_ProgressTimestamps ==
    [][\A k \in Reqs :
          /\ (hpc[k] = "install" /\ hpc'[k] = "202 Accepted")
                => (idle' = 0 /\ activeScan'.InProgress /\ activeScan'.Processed = 0)
          /\ \A processed \in Reported(k) :
                IF activeScan.set /\ activeScan.Processed # processed
                THEN activeScan'.Processed = processed /\ idle' = 0
                ELSE activeScan' = activeScan /\ idle' = idle]_vars

\* A callback has found its count recorded, on a scan whose last progress is
\* some time ago.
C24_Witness ==
    /\ cbSame
    /\ activeScan.InProgress
    /\ activeScan.Processed > 0
    /\ idle > 0

\* ---- C25
\* ProcessEmails has returned with the pool drained.
Drained ==
    /\ \A w \in Workers : wpc[w] = "exited"
    /\ closed
    /\ sent = Len(allMessages)
    /\ jobs = << >>
    /\ bar = Len(allMessages)

\* C25: the worker pool always drains: whatever the number of messages and
\* the failures of the upstream, ProcessEmails eventually returns, and it
\* returns only when every worker has exited and every message ID has been
\* put on the job queue and taken from it.
C25_PoolDrains ==
    /\ <>(mainpc = "returned")
    /\ [](mainpc = "returned" => Drained)

\* ProcessEmails has returned from a mailbox larger than the job queue, with
\* a message that failed on every attempt.
C25_Witness ==
    /\ mainpc = "returned"
    /\ Len(allMessages) > JobsCap
    /\ \E m \in DOMAIN upstream : upstream[m] = "exhausted"

\* ---- C26
\* The ledger and the shipped list with its dedup set.
Ledger == <<orders, shipped, shippedIDs>>

\* C26: the ledger is only touched under the mutex: a worker is in its
\* critical section exactly while it holds the mutex (so at most one is), the
\* ledger and the shipped list only change in a step of the worker that holds
\* it, and a worker fetching a message (retries and sleeps included) does not
\* hold it, before or after the fetch.
C26_LedgerUnderMutex ==
    [][/\ \A w \in Workers : (wpc[w] = "crit" <=> mu = w) /\ (wpc'[w] = "crit" <=> mu' = w)
       /\ Cardinality({w \in Workers : wpc'[w] = "crit"}) <= 1
       /\ Ledger' # Ledger
             => \E w \in Workers : mu = w /\ wpc[w] = "crit" /\ wpc'[w] # "crit"
       /\ \A w \in Workers :
             (wpc[w] = "fetch" \/ wpc'[w] = "fetch") => (mu # w /\ mu' # w)]_vars

\* One worker is in its critical section while another, its message
\* fetched, waits for the mutex.
C26_Witness ==
    \E w1, w2 \in Workers :
        /\ wpc[w1] = "crit" /\ mu = w1
        /\ wpc[w2] = "lock"
        /\ upstream[wjob[w2]] \in {"ok", "retried"}

\* ---- C27
RECURSIVE Pow2(_)
Pow2(n) == IF n = 0 THEN 1 ELSE 2 * Pow2(n - 1)

\* The answers before which the upstream gave only transient errors.
TransientPrefix(resps) ==
    {i \in 1..Len(resps) : \A j \in 1..(i - 1) : resps[j] \in TransientErrors}

\* What the claim says of one fetch.
RetryBounded(resps) ==
    LET got == getMessage(resps)
        last == CHOOSE i \in TransientPrefix(resps) : \A j \in TransientPrefix(resps) : j <= i
    IN  /\ got.calls <= maxAttempts
        /\ got.calls \in TransientPrefix(resps)
        /\ \A k \in 1..(got.calls - 1) :
              got.slept[k] = InitialBackoff * Pow2(k - 1)
        /\ resps[got.calls] = "ok" => got.ok
        /\ resps[got.calls] \in PermanentErrors
              => ~got.ok /\ got.err = resps[got.calls] /\ Len(got.slept) = got.calls - 1
        /\ resps[got.calls] \in TransientErrors
              => ~got.ok /\ got.calls = maxAttempts /\ got.err = "max retries exceeded"
        /\ got.calls < maxAttempts => got.calls = last

\* C27: the retry of a fetch is bounded and local to the worker: at most
\* maxAttempts calls are made, the wait before retry k is 1s * 2^(k-1), a
\* non-transient error ends the fetch at once, a fetch that was answered
\* transiently maxAttempts times returns an error, and the step of the fetch
\* puts nothing back on the job queue.
C27_RetryBounded ==
    [][\A m \in DOMAIN upstream :
          upstream'[m] # upstream[m]
              => /\ \A resps \in PlansFor(m) :
                      UpstreamClass(resps) = upstream'[m] => RetryBounded(resps)
                 /\ jobs' = jobs /\ sent' = sent /\ Ledger' = Ledger]_vars

\* A message was given up after maxAttempts transient answers and counted,
\* and its worker has gone on to the next message.
C27_Witness ==
    /\ \E m \in DOMAIN upstream : upstream[m] = "exhausted"
    /\ bar >= 1
    /\ \E w \in Workers : wpc[w] = "fetch"
    /\ \A w \in Workers : wjob[w] # 1

\* ---- C28
\* The job that the step finishes, as logged.
Finished == jlog'[Len(jlog')]

GoroutineStep(k) ==
    \/ rpc[k] # "none" /\ rpc'[k] # rpc[k]
    \/ Reported(k) # {}
    \/ WatchdogPass(k)

\* C29: the goroutines of an earlier scan never alter a later scan: a step
\* of scan k's runScan, progress callback or watchdog leaves the ScanProgress
\* that another request has installed as it is.
C29_EarlierScanLeavesLaterAlone ==
    [][\A k \in Reqs :
          (GoroutineStep(k) /\ activeScan.set /\ activeScan.owner # k)
              => activeScan' = activeScan]_vars

\* ---- C30
\* The scan in progress is the only one that has been started.
OnlyScan ==
    /\ activeScan.set
    /\ \A q \in Reqs : q # activeScan.owner => rpc[q] = "none"

\* C30: during one scan the Processed count of the ScanProgress never
\* decreases, in whatever order the workers' increments of the counter and
\* their onProgress callbacks are interleaved.
C30_ProcessedMonotonic ==
    [][(OnlyScan /\ activeScan'.owner = activeScan.owner)
          => activeScan'.Processed >= activeScan.Processed]_vars

\* ---- C31
\* runScan of the request that installed the ScanProgress has stored the
\* number of listed messages in it.
TotalSet(k) ==
    /\ activeScan.set
    /\ activeScan.owner = k
    /\ rpc[k] \in {"process", "defer", "done"}
    /\ outcome[k] # "list error"

\* C31: once TotalMessages has been set the scan has
\* 0 <= Processed <= TotalMessages, and a scan that has completed without an
\* error has Processed = TotalMessages and its orders published, from before
\* the deferred completion clears InProgress.
C31_ProcessedWithinTotal ==
    \A k \in Reqs :
        /\ TotalSet(k)
              => /\ 0 <= activeScan.Processed
                 /\ activeScan.Processed <= activeScan.TotalMessages
        /\ (TotalSet(k) /\ outcome[k] = "completed" /\ activeScan.Error = "")
              => /\ activeScan.Processed = activeScan.TotalMessages
                 /\ activeScan.HasOrders

\* ---- C32
\* LastProgressUpdate is stallThreshold plus one poll interval old.
StallDeadline == idle * PollInterval >= StallThreshold + PollInterval

\* C32: stall detection has a bounded response: time does not pass beyond
\* stallThreshold plus one poll interval since the last recorded progress
\* with the scan still running (a watchdog's pass is due then), the pass taken
\* at that time marks the scan timed out and cancels the context of the
\* scan's pipeline; conversely the timeout error is only written when the
\* last recorded progress is more than stallThreshold old.
C32_StallResponse ==
    /\ [](Running /\ StallDeadline
            => \E j \in Reqs : wdpc[j] = "ticking" /\ wdDue[j])
    /\ [][\A j \in Reqs :
            (WatchdogPass(j) /\ Running /\ StallDeadline)
                => /\ activeScan'.Error = TimeoutError
                   /\ ~activeScan'.InProgress
                   /\ cancelled'[activeScan.owner]]_vars
    /\ [][(activeScan'.Error = TimeoutError /\ activeScan.Error # TimeoutError)
            => Stalled(idle)]_vars

\* ---- C33
\* The watchdog's pass finds the scan in progress with LastProgressUpdate
\* more than the threshold old.
ObservesStall == Running /\ idle * PollInterval > StallThreshold

\* C33: the watchdog intervenes only on a stall: a pass that does not observe
\* a stall leaves the scan state and every context alone, a pass that does
\* writes the timeout error and InProgress = false, calls its cancel and
\* exits; no other step cancels a context, a scan that is no longer in
\* progress is not given the timeout error, and a watchdog that has exited
\* takes no further step.
C33_WatchdogOnlyOnStall ==
    [][/\ \A k \in Reqs :
            /\ (WatchdogPass(k) /\ ~ObservesStall)
                  => (activeScan' = activeScan /\ cancelled' = cancelled)
            /\ (WatchdogPass(k) /\ ObservesStall)
                  => /\ activeScan' = [activeScan EXCEPT !.Error = TimeoutError,
                                                         !.InProgress = FALSE]
                     /\ cancelled' = [cancelled EXCEPT ![k] = TRUE]
                     /\ wdpc'[k] = "exited"
            /\ wdpc[k] = "exited" => (wdpc'[k] = "exited" /\ cancelled'[k] = cancelled[k])
       /\ cancelled' # cancelled => \E k \in Reqs : WatchdogPass(k)
       /\ (activeScan.set /\ ~activeScan.InProgress
             /\ activeScan'.owner = activeScan.owner
             /\ activeScan.Error # TimeoutError)
            => activeScan'.Error # TimeoutError]_vars

\* A watchdog has intervened on a stalled scan and exited, after the watchdog
\* of a scan that completed on its own has exited without intervening.
C33_Witness ==
    \E k, j \in Reqs :
        /\ wdpc[k] = "exited" /\ cancelled[k]
        /\ activeScan.Error = TimeoutError /\ ~activeScan.InProgress
        /\ wdpc[j] = "exited" /\ ~cancelled[j]

SentAfterClose == \E w \in Workers : wpc[w] = "panicked"

\* A worker waits to send on the full job channel.
SendBlocked ==
    \E w \in Workers : wpc[w] = "requeue" /\ ~closed /\ Len(jobs) >= Len(allMessages)

\* C35: the requeue variant terminates with every message fetched or
\* abandoned: ProcessEmails eventually returns, by then every message was
\* fetched or given up, no worker ever sends on the job channel after the
\* producer has closed it and none waits on a full channel.
C35_RequeueTerminates ==
    /\ <>(mainpc = "returned")
    /\ [](mainpc = "returned"
            => \A m \in MsgIds : upstream[m].fate \in {"fetched", "abandoned"})
    /\ [](~SentAfterClose)
    /\ [](~SendBlocked)

\* ---- C36
\* The jobs the workers have finished: taken from the channel and no longer
\* held by a worker.
JobsFinished == sent - Len(jobs) - Cardinality({w \in Workers : wjob[w] # 0})

\* Worker w ends its job in the step.
FinishesJob(w) == wjob[w] # 0 /\ wjob'[w] = 0

\* C36: every listed message is counted exactly once: the progress count is
\* the number of finished jobs, a step that ends a job (after a fetch error,
\* a message that yields nothing, or a critical section of any kind) advances
\* it by exactly one, no other step changes it, and it equals the number of
\* listed messages when ProcessEmails returns.
C36_CountedExactlyOnce ==
    /\ [](bar = JobsFinished)
    /\ [][/\ (\E w \in Workers : FinishesJob(w)) => bar' = bar + 1
          /\ bar' # bar => \E w \in Workers : FinishesJob(w)]_vars
    /\ [](mainpc = "returned" => bar = Len(allMessages))

\* ProcessEmails has returned its count after a message whose fetch failed
\* and a message that was fetched and yielded nothing.
C36_Witness ==
    /\ mainpc = "returned"
    /\ bar = Len(allMessages)
    /\ \E m, n \in DOMAIN allMessages :
          /\ upstream[m] \in {"permanent", "exhausted"}
          /\ upstream[n] \in {"ok", "retried"}
          /\ ~NeedsLock(allMessages[n])

\* ---- C37
\* The step is the critical section of message m.
Applies(m) == applied' = Append(applied, m)

\* C37: the status follows the confirmation merged last while the order is
\* not canceled: a critical section that merges a confirmation or pre-order
\* delta into an entry that is not canceled leaves the entry with the delta's
\* status, and merging any two such deltas of one order into the ledger
\* leaves the status of the second.
C37_LastConfirmationStatus ==
    /\ [][\A m \in DOMAIN allMessages :
            (Applies(m) /\ IsConfirmation(m)
               /\ Delta(m).ID \in DOMAIN orders
               /\ orders[Delta(m).ID].Status # "canceled")
                => orders'[Delta(m).ID].Status = Delta(m).Status]_vars
    /\ [](\A d1, d2 \in Deltas :
            (d1.ID = d2.ID
               /\ (d1.ID \in DOMAIN orders => orders[d1.ID].Status # "canceled"))
                => mergeOrCreateOrder(mergeOrCreateOrder(orders, d1), d2)[d2.ID].Status
                     = d2.Status)

\* A pre-order was merged, a confirmation of the same order after it, and
\* the order is confirmed.
C37_Witness ==
    \E i, j \in 1..Len(applied) :
        /\ i < j
        /\ IsConfirmation(applied[i]) /\ IsConfirmation(applied[j])
        /\ Delta(applied[i]).ID = Delta(applied[j]).ID
        /\ Delta(applied[i]).Status = "pre-ordered"
        /\ Delta(applied[j]).Status = "confirmed"
        /\ orders[Delta(applied[j]).ID].Status = "confirmed"

\* ---- C38
\* The ledger gmail.ProcessEmails returned for account a.
AccountLedger(a) == ScanLedger(accMsgs[a])[1]

\* C38: the multi-account merge keeps a cancellation from either side: in
\* whatever order the accounts complete, an order that is canceled in the
\* ledger of an account that has been merged is canceled in the combined
\* ledger; no merge changes a total, an order date or items that the
\* combined ledger already has; the ledger changes only in the critical
\* section of the account holding the mutex, and the report waits for every
\* account.
C38_AccountsKeepCancellation ==
    /\ [](\A i \in 1..Len(amerged) :
            \A id \in DOMAIN AccountLedger(amerged[i]) :
                /\ id \in DOMAIN allOrders
                /\ AccountLedger(amerged[i])[id].Status = "canceled"
                      => allOrders[id].Status = "canceled")
    /\ [][/\ FirstKnownKept(allOrders, allOrders')
          /\ allOrders' # allOrders
                => \E a \in Accounts : amu = a /\ accpc[a] = "crit" /\ amu' = 0]_vars
    /\ [](amainpc = "report"
            => \A a \in Accounts :
                  accpc[a] = "done" <=> \E i \in 1..Len(amerged) : amerged[i] = a)

\* The report is due after two accounts were merged: the first had the order
\* confirmed with its total, the second had it canceled, and the combined
\* ledger has it canceled with the first account's total.
C38_Witness ==
    /\ amainpc = "report"
    /\ Len(amerged) >= 2
    /\ \E id \in DOMAIN AccountLedger(amerged[1]) \cap DOMAIN AccountLedger(amerged[2]) :
          /\ AccountLedger(amerged[1])[id].Status = "confirmed"
          /\ AccountLedger(amerged[1])[id].Total # ""
          /\ AccountLedger(amerged[2])[id].Status = "canceled"
          /\ allOrders[id].Status = "canceled"
          /\ allOrders[id].Total = AccountLedger(amerged[1])[id].Total

\* ---- C39
\* The entry the critical section of message m inserts when the ledger does
\* not have its order.
Inserted(m) ==
    IF IsConfirmation(m) THEN Delta(m) ELSE CanceledOrder(CancelKey(m))

\* C39: the ledger only grows and its entries are mutated in place: a step
\* removes no order ID, adds at most one, changes the ledger only as the
\* critical section of a message, leaves the ID, the total and the order
\* date of an existing entry as they are and its items unless it had none
\* (only the status and empty items are written), and inserts an absent
\* order as the delta of the message, field for field.
C39_LedgerOnlyGrows ==
    [][/\ DOMAIN orders \subseteq DOMAIN orders'
       /\ Cardinality(DOMAIN orders' \ DOMAIN orders) <= 1
       /\ orders' # orders => \E m \in DOMAIN allMessages : Applies(m)
       /\ \A id \in DOMAIN orders :
             /\ orders'[id].ID = orders[id].ID
             /\ orders'[id].Total = orders[id].Total
             /\ orders'[id].OrderDate = orders[id].OrderDate
             /\ orders[id].Items # << >> => orders'[id].Items = orders[id].Items
       /\ \A m \in DOMAIN allMessages :
             Applies(m) => \A id \in DOMAIN orders' \ DOMAIN orders :
                              orders'[id] = Inserted(m)]_vars

\* An order inserted by its cancellation, with no total and no items, was
\* then merged with its confirmation: the entry has the confirmation's items,
\* is still canceled and still has no total.
C39_Witness ==
    \E i, j \in 1..Len(applied) :
        /\ i < j
        /\ IsCancellation(applied[i])
        /\ IsConfirmation(applied[j])
        /\ CancelKey(applied[i]) = Delta(applied[j]).ID
        /\ Delta(applied[j]).Total # ""
        /\ orders[Delta(applied[j]).ID].Items = Delta(applied[j]).Items
        /\ orders[Delta(applied[j]).ID].Items # << >>
        /\ orders[Delta(applied[j]).ID].Total = ""
        /\ orders[Delta(applied[j]).ID].Status = "canceled"

====
